---- MODULE Spec2Model ----
(***************************************************************************)
(* A model of the event-to-decision pipeline of ponder-base-createpool2:   *)
(* the concurrency limiter (utils/http.ts, sniper.ts), the retry wrapper   *)
(* (utils/retry.ts), the LRU+TTL cache (utils/lruCache.ts) and the log     *)
(* ingestion with its dedup cache and block cursor (sniper.ts).            *)
(*                                                                         *)
(* Each component has its own group of variables and its own               *)
(* specification; a specification keeps the other groups at their idle     *)
(* values.                                                                 *)
(***************************************************************************)
EXTENDS Integers, Sequences, FiniteSets, TLC

VARIABLES
    \* ---- createConcurrencyLimiter (utils/http.ts:5-26, sniper.ts:326-347)
    concurrency,    \* the limiter's configured concurrency
    activeCount,    \* let activeCount
    queue,          \* const queue: resolve functions of the callers that wait
    microtasks,     \* continuations of woken waiters, in the job queue (FIFO)
    pc,             \* per caller: idle | waiting | woken | running | done
    started,        \* history: callers in the order their task started
    waited,         \* history: callers that had to wait, in arrival order
    aheadAtArrival, \* history: per caller, the callers queued when it arrived
    \* ---- guardedFetch / fetchWithRetry / withRetry (utils/http.ts, utils/retry.ts)
    opts,           \* the options of the call (RetryOptions, timeoutMs, init.signal)
    rPc,            \* idle | inflight | sleeping | returned | thrown
    attempt,        \* withRetry: let attempt
    delay,          \* withRetry: let delay
    lastError,      \* withRetry: let lastError
    retryError,     \* the RetryError thrown, or NoError
    slotHeld,       \* guardedFetch: the call holds a slot of its host limiter
    elapsed,        \* time since the attempt in flight began
    calls,          \* history: number of times fn was called
    delays,         \* history: the delays slept, in order
    allRetryable,   \* history: the predicate accepted every error so far
    \* ---- LRUCache (utils/lruCache.ts)
    cache,          \* this.cache: the Map's entries in insertion order
    maxSize,        \* this.maxSize
    ttlMs,          \* this.ttlMs
    now,            \* Date.now()
    recency,        \* history: the stored keys, least recently used first
    deadline,       \* history: per stored key, the time s + T of its last set
    lastOp,         \* history: what the last operation did (evict, expire, ...)
    \* ---- log ingestion, dedup and cursor (sniper.ts)
    phase,          \* main: boot | backfill | live
    processedEventIds,   \* the dedup LRUCache (its Map)
    clock,          \* Date.now()
    sniperLastSeenBlock, \* the in-memory cursor, or Null
    sniperCursorDirty,   \* the dirty flag
    handlers,       \* per log identity: handler tasks dispatched and not settled
    liveLogs,       \* history: number of logs the subscriptions delivered
    deliveries,     \* history: per log identity, deliveries so far (0, 1, 2 = more)
    dispatches,     \* history: per log identity, handler tasks dispatched
    markDeadline,   \* history: per log identity, clock + TTL of its first mark
    lost,           \* history: per log identity, its key was evicted or its handler threw
    lowerSeen,      \* history: a log below the cursor was accepted
    settled,        \* history: the handler task that settled last, and how
    backfilled,     \* history: the log identities the backfill query returned
    writes,         \* the blocks of the cursor writes in flight
    lastWrite,      \* history: the cursor write that settled last, and how
    cursorFile,     \* the block in the cursor file (SNIPER_CURSOR_PATH), or Null
    \* ---- evaluateCreator (sniper.ts)
    creator,        \* the CreatorInfo under evaluation
    gateEnabled,    \* SNIPER_NEYNAR_GATE_ENABLED
    evaluation,     \* the result of evaluateCreator, or NotEvaluated
    \* ---- validation paths and spam protection (sniper.ts)
    dateNow,        \* Date.now()
    creatorTokenCount,      \* Map creator key -> {count, firstSeen}
    spamCountedTokens,      \* LRUCache of the token keys already counted
    slowValidationInFlight, \* Set of token keys with a slow validation
    validation,     \* the last ValidationResult, its token and its path
    validations,    \* history: number of validations run
    dispatchedFids, \* history: fids whose token reached the pass branch
    increments,     \* history: per token key, times it was counted
    windowEnd,      \* history: per token key, end of the window of its first count
    spamEvicted,    \* history: per token key, its mark was evicted by capacity
    windowPassed,   \* history: per creator key, token keys passed in its window
    windowCounted,  \* history: per creator key, token keys counted in its window
    \* ---- the liquidity watchlist and the alerts (sniper.ts)
    config,         \* the SNIPER_ALERT_* settings and isAutoBuyReady().ready
    watchNow,       \* Date.now()
    pendingTokens,  \* Map token key -> PendingToken, in insertion order
    createAlertedTokens,    \* LRUCache of the token keys alerted on create
    pass,           \* the poll pass in flight (watchlistCheckInFlight)
    detections,     \* history: number of detections handled
    lastAdd,        \* history: the last addToWatchlist call
    removed,        \* history: token keys whose entry a poll pass removed
    readded,        \* history: token keys inserted again after a removal
    liquidityAlerts,    \* history: per token key, sendLiquidityAlert calls for its entry
    hit,            \* history: per token key, liquidity of its entry's first hit
    expired,        \* history: watched token keys the last pass found too old
    afterExpiry,    \* history: token keys checked or alerted though too old
    firstAlert,     \* history: per token key, the kind of its first alert
    detected,       \* history: the last detection handled
    \* ---- subscriptions, resubscribe and health check (sniper.ts, main)
    subNow,         \* Date.now()
    head,           \* the chain: the block number the node reports
    factoryLogs,    \* the chain: the blocks holding a log of a factory
    delivered,      \* history: the blocks whose log a subscription delivered
    lastEventAt,    \* the time of the last delivered batch
    consecutiveErrors,   \* the counter of transport errors
    isResubscribing,     \* the flag of resubscribeAll
    lastResubscribeAt,   \* the start of the last resubscribe
    resubscribing,  \* resubscribeAll: idle | notified | paused | subscribed
    unwatch,        \* per subscription: 1 while it is subscribed, else 0
    lastHealthCheckBlock,    \* the block number of the last health check
    lastStaleProbeAt,    \* the time of the last probe
    sinceBatch,     \* history: errors since the last delivered batch, by kind
    request,        \* history: the last call of resubscribeAll
    health,         \* history: what the last health check saw and did
    \* ---- Farcaster lookup by address and fast timeout (sniper.ts)
    enableSlowFallback,  \* SNIPER_ENABLE_SLOW_FALLBACK
    neynarUserByAddressCache,    \* per address: none | null | user
    neynarUserByAddressInFlight, \* the addresses with a task in flight
    fastPath,       \* per token: idle | racing | found | creator_not_found_fast
    scheduled,      \* history: tokens whose slow validation was scheduled
    timedOut,       \* history: tokens whose fast path ended by its timer
    lastLookup,     \* history: the task that settled last, and how
    \* ---- the memoized creator lookups (sniper.ts)
    memoKind,       \* the lookup a behaviour follows: address | username | twitter | fid
    memoNow,        \* Date.now()
    memoCache,      \* the result LRUCache of the lookup (its Map)
    memoInFlight,   \* the keys of the in-flight Map of the lookup
    outstanding,    \* history: per key, network requests not yet answered
    awaiting,       \* history: per key, callers waiting for the answer
    succeeded,      \* history: per key, the last successful resolution
    lastCall,       \* history: the last call of the lookup
    lastSettle,     \* history: the request answered last, and how
    \* ---- the waits of the slow path (sniper.ts, validateTokenWithRetry)
    slowTry,        \* validateTokenWithRetry: let attempt
    slowWaits,      \* history: the delays waited, in order
    slowLast,       \* history: the last call of validateToken and the wait after it
    \* ---- the interval of the watchlist poll (sniper.ts, startWatchlistLoop)
    watchlistCheckInFlight, \* let watchlistCheckInFlight
    passesRunning,  \* calls of checkWatchlistLiquidity not yet settled
    watchlistSize,  \* pendingTokens.size
    lastTick,       \* history: what the last tick of the interval did
    passLog,        \* history: how the passes settled, in order
    \* ---- the tasks of the slow path (sniper.ts, scheduleSlowValidation)
    slowQueued,     \* token keys of the tasks waiting in runSlowValidationTask
    slowRunning,    \* per token key, the tasks that started and have not ended
    lastSchedule,   \* history: the last call of scheduleSlowValidation
    lastEnd,        \* history: the task that ended last, and how
    \* ---- the watchers of the three log streams (sniper.ts, main)
    activeWatchers, \* per stream, the watchers created and not stopped
    unwatchHandle,  \* per stream, the watcher its unwatch handle stops
    resubStep,      \* resubscribeAll: idle | unsubscribing | paused
    resubRuns       \* executions of resubscribeAll so far

limVars == <<concurrency, activeCount, queue, microtasks, pc, started,
             waited, aheadAtArrival>>

retryVars == <<opts, rPc, attempt, delay, lastError, retryError, slotHeld,
               elapsed, calls, delays, allRetryable>>

lruVars == <<cache, maxSize, ttlMs, now, recency, deadline, lastOp>>

ingestVars == <<phase, processedEventIds, clock, sniperLastSeenBlock,
                sniperCursorDirty, handlers, liveLogs,
                deliveries, dispatches, markDeadline, lost, lowerSeen,
                settled, backfilled, writes, lastWrite,
                cursorFile>>

evalVars == <<creator, gateEnabled, evaluation>>

valVars == <<dateNow, creatorTokenCount, spamCountedTokens,
             slowValidationInFlight, validation, validations, dispatchedFids,
             increments, windowEnd, spamEvicted, windowPassed, windowCounted>>

watchVars == <<config, watchNow, pendingTokens, createAlertedTokens, pass,
               detections, lastAdd, removed, readded, liquidityAlerts, hit,
               expired, afterExpiry, firstAlert, detected>>

subVars == <<subNow, head, factoryLogs, delivered, lastEventAt,
             consecutiveErrors, isResubscribing, lastResubscribeAt,
             resubscribing, unwatch, lastHealthCheckBlock, lastStaleProbeAt,
             sinceBatch, request, health>>

lookupVars == <<enableSlowFallback, neynarUserByAddressCache,
                neynarUserByAddressInFlight, fastPath, scheduled, timedOut,
                lastLookup>>

memoVars == <<memoKind, memoNow, memoCache, memoInFlight, outstanding,
              awaiting, succeeded, lastCall, lastSettle>>

slowVars == <<slowTry, slowWaits, slowLast>>

loopVars == <<watchlistCheckInFlight, passesRunning, watchlistSize,
              lastTick, passLog>>

taskVars == <<slowQueued, slowRunning, lastSchedule, lastEnd>>

resubVars == <<activeWatchers, unwatchHandle, resubStep, resubRuns>>

vars == <<limVars, retryVars, lruVars, ingestVars, evalVars, valVars,
          watchVars, subVars, lookupVars, memoVars,
          slowVars,
          loopVars,
          taskVars,
          resubVars>>

-----------------------------------------------------------------------------
(* Bounds of the model.                                                    *)

NumCallers == 4
MaxConcurrency == 2
MaxRetriesBound == 3
MaxInitialDelay == 2
MaxMaxDelay == 5
MaxElapsed == 3
Capacity == 2
DefaultTtl == 1
DedupCapacity == 2
DedupTtl == 1
MaxLiveLogs == 1
BackfillMaxLogs == 2
SpamCapacity == 2
CreatorWindow == 1
CheckInterval == 1
WatchlistMaxAge == 2
CreateAlertCapacity == 2
MaxDetections == 2

-----------------------------------------------------------------------------
(* Helpers on sequences.                                                   *)

\* null: no cursor yet, a log without a block number, no deadline recorded.
Null == -1

Range(s) == {s[i] : i \in 1..Len(s)}

IndexOf(s, x) == CHOOSE i \in 1..Len(s) : s[i] = x

-----------------------------------------------------------------------------
(* createConcurrencyLimiter                                                *)

Callers == 1..NumCallers

LimInit ==
    /\ concurrency \in 1..MaxConcurrency
    /\ activeCount = 0
    /\ queue = <<>>
    /\ microtasks = <<>>
    /\ pc = [c \in Callers |-> "idle"]
    /\ started = <<>>
    /\ waited = <<>>
    /\ aheadAtArrival = [c \in Callers |-> {}]

LimOff ==
    /\ concurrency = 0
    /\ activeCount = 0
    /\ queue = <<>>
    /\ microtasks = <<>>
    /\ pc = <<>>
    /\ started = <<>>
    /\ waited = <<>>
    /\ aheadAtArrival = <<>>

\* `if (activeCount >= concurrency)`: the caller has to wait for a slot.
MustWait(active, limit) == active >= limit

\* The limiter is called: either the caller parks its resolve function in
\* the queue, or it takes a slot and starts its task in the same job.
LimiterCall(c) ==
    /\ pc[c] = "idle"
    /\ aheadAtArrival' = [aheadAtArrival EXCEPT ![c] = Range(queue)]
    /\ IF MustWait(activeCount, concurrency)
       THEN /\ queue' = Append(queue, c)
            /\ waited' = Append(waited, c)
            /\ pc' = [pc EXCEPT ![c] = "waiting"]
            /\ UNCHANGED <<activeCount, started>>
       ELSE /\ activeCount' = activeCount + 1
            /\ pc' = [pc EXCEPT ![c] = "running"]
            /\ started' = Append(started, c)
            /\ UNCHANGED <<queue, waited>>
    /\ UNCHANGED <<concurrency, microtasks>>

\* The continuation of a woken waiter runs: `activeCount += 1; task()`.
\* Promise jobs run in the order in which they were enqueued.
LimiterResume ==
    /\ microtasks # <<>>
    /\ LET c == Head(microtasks) IN
        /\ activeCount' = activeCount + 1
        /\ pc' = [pc EXCEPT ![c] = "running"]
        /\ started' = Append(started, c)
    /\ microtasks' = Tail(microtasks)
    /\ UNCHANGED <<concurrency, queue, waited, aheadAtArrival>>

\* (mutant) next() frees the slot and wakes nobody.
LimiterNextNoWake(c) ==
    /\ pc[c] = "running"
    /\ activeCount' = activeCount - 1
    /\ pc' = [pc EXCEPT ![c] = "done"]
    /\ UNCHANGED <<concurrency, queue, microtasks, started, waited,
                   aheadAtArrival>>

\* A task settles: `finally { next() }` frees the slot and resolves the
\* promise of the first queued caller, whose continuation becomes a job.
LimiterNext(c) ==
    /\ pc[c] = "running"
    /\ activeCount' = activeCount - 1
    /\ IF queue # <<>>
       THEN /\ queue' = Tail(queue)
            /\ microtasks' = Append(microtasks, Head(queue))
            /\ pc' = [pc EXCEPT ![c] = "done", ![Head(queue)] = "woken"]
       ELSE /\ pc' = [pc EXCEPT ![c] = "done"]
            /\ UNCHANGED <<queue, microtasks>>
    /\ UNCHANGED <<concurrency, started, waited, aheadAtArrival>>

-----------------------------------------------------------------------------
(* withRetry, fetchWithRetry (utils/retry.ts) and guardedFetch             *)
(* (utils/http.ts).                                                        *)

NoError == [name |-> "none", message |-> <<>>]

Min(a, b) == IF a <= b THEN a ELSE b

\* The predicates a call can run with: withRetry's own default `() => true`,
\* fetchWithRetry's default, and the sniper's shouldRetryHttp.
Predicates == {"always", "fetchDefault", "shouldRetryHttp"}

Multipliers == {2, 3}

RetryOptionSets ==
    [maxRetries : 0..MaxRetriesBound,
     initialDelayMs : 1..MaxInitialDelay,
     maxDelayMs : 1..MaxMaxDelay,
     backoffMultiplier : Multipliers,
     shouldRetry : Predicates,
     timeoutMs : 1..(MaxElapsed - 1),
     signal : BOOLEAN]

\* The statuses the server answers with.
Statuses == {200, 404, 429, 500, 503}

DigitChar(d) == <<"0", "1", "2", "3", "4", "5", "6", "7", "8", "9">>[d + 1]

\* `${response.status}` for a three-digit status.
StatusDigits(n) ==
    <<DigitChar(n \div 100), DigitChar((n \div 10) % 10), DigitChar(n % 10)>>

\* `HTTP ${response.status}: ${response.statusText}` as a sequence of
\* characters (the status text is left empty).
HttpMessage(status) ==
    <<"H", "T", "T", "P", " ">> \o StatusDigits(status) \o <<":", " ">>

\* `throw new Error(...)` of fetchWithRetry for a 5xx or 429 response.
HttpError(status) == [name |-> "Error", message |-> HttpMessage(status)]

TypeError == [name |-> "TypeError", message |-> <<"f", "a", "i", "l">>]

AbortError == [name |-> "AbortError", message |-> <<"a", "b", "o", "r", "t">>]

\* fetchWithRetry turns these responses into errors.
IsErrorStatus(status) == status >= 500 \/ status = 429

StartsWith(msg, prefix) ==
    /\ Len(prefix) <= Len(msg)
    /\ \A i \in 1..Len(prefix) : msg[i] = prefix[i]

\* /^HTTP (429|5\\d\\d)\\b/.test(message): in the regular-expression literal
\* `\\` is an escaped backslash, so the pattern asks for the characters
\* `\d\d` after the 5 and for `\b` after the group, literally.
ShouldRetryHttpRegex(msg) ==
    \E alt \in {<<"4", "2", "9">>, <<"5", "\\", "d", "\\", "d">>} :
        StartsWith(msg, <<"H", "T", "T", "P", " ">> \o alt \o <<"\\", "b">>)

\* shouldRetryHttp of the sniper.
ShouldRetryHttp(error) ==
    \/ error.name = "TypeError"
    \/ error.name = "AbortError"
    \/ ShouldRetryHttpRegex(error.message)

\* The default predicate of fetchWithRetry: network errors only.
FetchDefaultShouldRetry(error) == error.name = "TypeError"

\* The predicate withRetry runs with.
ShouldRetry(kind, error) ==
    CASE kind = "always" -> TRUE
      [] kind = "fetchDefault" -> FetchDefaultShouldRetry(error)
      [] kind = "shouldRetryHttp" -> ShouldRetryHttp(error)

\* `attempt >= maxRetries || !shouldRetry(error)`: withRetry gives up.
GivesUp(att, o, error) ==
    att >= o.maxRetries \/ ~ShouldRetry(o.shouldRetry, error)

\* (mutant) the loop index reported in place of the number of attempts.
AttemptsMadeLoopIndex(att) == att

\* The attempts a RetryError thrown in the catch block reports.
AttemptsMade(att) == att + 1

\* `delay = Math.min(delay * backoffMultiplier, maxDelayMs)`
NextDelay(d, o) == Min(d * o.backoffMultiplier, o.maxDelayMs)

RetryInit ==
    /\ opts \in RetryOptionSets
    /\ rPc = "idle"
    /\ attempt = 0
    /\ delay = 0
    /\ lastError = NoError
    /\ retryError = NoError
    /\ slotHeld = FALSE
    /\ elapsed = 0
    /\ calls = 0
    /\ delays = <<>>
    /\ allRetryable = TRUE

RetryOff ==
    /\ opts = <<>>
    /\ rPc = "off"
    /\ attempt = 0
    /\ delay = 0
    /\ lastError = NoError
    /\ retryError = NoError
    /\ slotHeld = FALSE
    /\ elapsed = 0
    /\ calls = 0
    /\ delays = <<>>
    /\ allRetryable = TRUE

\* guardedFetch takes a slot of the host limiter and calls fetchWithRetry,
\* which enters withRetry's loop and calls fetch(url, init): the timeoutMs
\* of the options is not read by fetchWithRetry, and no timer is armed.
GuardedFetch ==
    /\ rPc = "idle"
    /\ slotHeld' = TRUE
    /\ delay' = opts.initialDelayMs
    /\ attempt' = 0
    /\ rPc' = "inflight"
    /\ calls' = calls + 1
    /\ elapsed' = 0
    /\ UNCHANGED <<opts, lastError, retryError, delays, allRetryable>>

\* Time passes while the attempt is in flight.
Tick ==
    /\ rPc = "inflight"
    /\ elapsed < MaxElapsed
    /\ elapsed' = elapsed + 1
    /\ UNCHANGED <<opts, rPc, attempt, delay, lastError, retryError, slotHeld,
                   calls, delays, allRetryable>>

\* The catch block of withRetry, entered with `error`.
Catch(error) ==
    /\ lastError' = error
    /\ allRetryable' = (allRetryable /\ ShouldRetry(opts.shouldRetry, error))
    /\ IF GivesUp(attempt, opts, error)
       THEN /\ retryError' = [name |-> "RetryError",
                              attempts |-> AttemptsMade(attempt),
                              lastError |-> error]
            /\ rPc' = "thrown"
            /\ slotHeld' = FALSE
            /\ UNCHANGED delays
       ELSE /\ rPc' = "sleeping"
            /\ delays' = Append(delays, delay)
            /\ UNCHANGED <<retryError, slotHeld>>
    /\ UNCHANGED <<opts, attempt, delay, elapsed, calls>>

\* The server answers the attempt in flight with a status.
FetchResolves(status) ==
    /\ rPc = "inflight"
    /\ IF IsErrorStatus(status)
       THEN Catch(HttpError(status))
       ELSE /\ rPc' = "returned"
            /\ slotHeld' = FALSE
            /\ UNCHANGED <<opts, attempt, delay, lastError, retryError,
                           elapsed, calls, delays, allRetryable>>

\* fetch rejects: a network error, or the abort of the caller's own signal.
FetchRejects(error) ==
    /\ rPc = "inflight"
    /\ error = AbortError => opts.signal
    /\ Catch(error)

\* sleep(delay) is over: the delay grows, the loop goes on to its next
\* iteration and calls fn again; past the loop, the final throw.
SleepDone ==
    /\ rPc = "sleeping"
    /\ delay' = NextDelay(delay, opts)
    /\ attempt' = attempt + 1
    /\ elapsed' = 0
    /\ IF attempt + 1 <= opts.maxRetries
       THEN /\ rPc' = "inflight"
            /\ calls' = calls + 1
            /\ UNCHANGED <<retryError, slotHeld>>
       ELSE /\ rPc' = "thrown"
            /\ retryError' = [name |-> "RetryError",
                              attempts |-> opts.maxRetries + 1,
                              lastError |-> lastError]
            /\ slotHeld' = FALSE
            /\ UNCHANGED calls
    /\ UNCHANGED <<opts, lastError, delays, allRetryable>>

-----------------------------------------------------------------------------
(* LRUCache (utils/lruCache.ts). The Map is the sequence of its entries in *)
(* insertion order; the operations are functions of the Map and the time.  *)

\* One key more than the cache holds.
Keys == 1..(Capacity + 1)

Values == {"v"}

\* Time runs until every TTL in use has run out.
MaxNow == DefaultTtl + 2

Undefined == "undefined"

\* No customTtlMs argument.
NoTtl == -1

\* Map.prototype.has
MapHas(c, k) == \E i \in 1..Len(c) : c[i].key = k

\* Map.prototype.get (of a key the Map has)
MapGet(c, k) == c[CHOOSE i \in 1..Len(c) : c[i].key = k]

\* Map.prototype.delete
MapDelete(c, k) == SelectSeq(c, LAMBDA e : e.key # k)

\* Map.prototype.set of a key the Map does not have: appended last.
MapAppend(c, e) == Append(c, e)

MapKeys(c) == {c[i].key : i \in 1..Len(c)}

\* `Date.now() > entry.expiresAt`
IsExpired(entry, t) == t > entry.expiresAt

\* (mutant) get answers a live entry without moving it to the end.
LruGetNoMove(c, k, t) ==
    IF ~MapHas(c, k) THEN [cache |-> c, value |-> Undefined]
    ELSE IF IsExpired(MapGet(c, k), t)
         THEN [cache |-> MapDelete(c, k), value |-> Undefined]
         ELSE [cache |-> c, value |-> MapGet(c, k).value]

\* get(key): the Map afterwards and the value returned.
LruGet(c, k, t) ==
    IF ~MapHas(c, k) THEN [cache |-> c, value |-> Undefined]
    ELSE IF IsExpired(MapGet(c, k), t)
         THEN [cache |-> MapDelete(c, k), value |-> Undefined]
         ELSE [cache |-> MapAppend(MapDelete(c, k), MapGet(c, k)),
               value |-> MapGet(c, k).value]

\* `while (this.cache.size >= this.maxSize)` delete the first key.
RECURSIVE EvictOldest(_, _)
EvictOldest(c, size) ==
    IF Len(c) >= size /\ Len(c) > 0 THEN EvictOldest(Tail(c), size) ELSE c

\* `customTtlMs ?? this.ttlMs`
TtlOf(customTtlMs, defaultTtl) ==
    IF customTtlMs = NoTtl THEN defaultTtl ELSE customTtlMs

\* set(key, value, customTtlMs?): the Map afterwards.
LruSet(c, k, v, customTtlMs, t, size, defaultTtl) ==
    MapAppend(EvictOldest(IF MapHas(c, k) THEN MapDelete(c, k) ELSE c, size),
              [key |-> k, value |-> v,
               expiresAt |-> t + TtlOf(customTtlMs, defaultTtl)])

\* (mutant) has treats an entry as expired already at its expiry time.
LruHasExpiresEarly(c, k, t) ==
    IF ~MapHas(c, k) THEN [cache |-> c, found |-> FALSE]
    ELSE IF t >= MapGet(c, k).expiresAt
         THEN [cache |-> MapDelete(c, k), found |-> FALSE]
         ELSE [cache |-> c, found |-> TRUE]

\* has(key): the Map afterwards and the answer.
LruHas(c, k, t) ==
    IF ~MapHas(c, k) THEN [cache |-> c, found |-> FALSE]
    ELSE IF IsExpired(MapGet(c, k), t)
         THEN [cache |-> MapDelete(c, k), found |-> FALSE]
         ELSE [cache |-> c, found |-> TRUE]

\* delete(key)
LruDelete(c, k) == MapDelete(c, k)

\* prune(): every expired entry is deleted.
LruPrune(c, t) == SelectSeq(c, LAMBDA e : ~IsExpired(e, t))

LruInit ==
    /\ cache = <<>>
    /\ maxSize = Capacity
    /\ ttlMs = DefaultTtl
    /\ now = 0
    /\ recency = <<>>
    /\ deadline = [k \in Keys |-> Null]
    /\ lastOp = "none"

LruOff ==
    /\ cache = <<>>
    /\ maxSize = 0
    /\ ttlMs = 0
    /\ now = 0
    /\ recency = <<>>
    /\ deadline = <<>>
    /\ lastOp = "none"

\* The history kept beside an operation that leaves the Map as c2 and that
\* used key `used` (0: none): the use order of the stored keys, and for a
\* set, the time s + T until which the entry is to be present.
History(c2, used, setDeadline) ==
    /\ recency' =
        LET kept == SelectSeq(recency, LAMBDA k : k \in MapKeys(c2) /\ k # used)
        IN  IF used \in MapKeys(c2) THEN Append(kept, used) ELSE kept
    /\ deadline' = [k \in Keys |->
                    IF k \notin MapKeys(c2) THEN Null
                    ELSE IF k = used /\ setDeadline # Null THEN setDeadline
                    ELSE deadline[k]]

Get(k) ==
    LET r == LruGet(cache, k, now) IN
    /\ cache' = r.cache
    /\ History(r.cache, IF r.value # Undefined THEN k ELSE 0, Null)
    /\ lastOp' = IF MapHas(cache, k) /\ r.value = Undefined
                 THEN "expired" ELSE "get"
    /\ UNCHANGED <<maxSize, ttlMs, now>>

Set(k, v, customTtlMs) ==
    LET c2 == LruSet(cache, k, v, customTtlMs, now, maxSize, ttlMs) IN
    /\ cache' = c2
    /\ History(c2, k, now + (IF customTtlMs = NoTtl THEN ttlMs ELSE customTtlMs))
    /\ lastOp' = IF MapKeys(cache) \ MapKeys(c2) # {} THEN "evict" ELSE "set"
    /\ UNCHANGED <<maxSize, ttlMs, now>>

Has(k) ==
    LET r == LruHas(cache, k, now) IN
    /\ cache' = r.cache
    /\ History(r.cache, 0, Null)
    /\ lastOp' = IF MapHas(cache, k) /\ ~r.found THEN "expired" ELSE "has"
    /\ UNCHANGED <<maxSize, ttlMs, now>>

Delete(k) ==
    LET c2 == LruDelete(cache, k) IN
    /\ cache' = c2
    /\ History(c2, 0, Null)
    /\ lastOp' = "delete"
    /\ UNCHANGED <<maxSize, ttlMs, now>>

Prune ==
    LET c2 == LruPrune(cache, now) IN
    /\ cache' = c2
    /\ History(c2, 0, Null)
    /\ lastOp' = "prune"
    /\ UNCHANGED <<maxSize, ttlMs, now>>

\* Date.now() moves on.
AdvanceTime ==
    /\ now < MaxNow
    /\ now' = now + 1
    /\ UNCHANGED <<cache, maxSize, ttlMs, recency, deadline, lastOp>>

-----------------------------------------------------------------------------
(* Log ingestion (sniper.ts): getEventId, the dedup cache                  *)
(* processedEventIds, markSniperCursor, flushSniperCursor, the backfill    *)
(* and the onLogs callbacks of the subscriptions.                          *)

\* Block numbers of logs; a pending log has none.
MaxBlock == 2

Blocks == 0..MaxBlock

\* SNIPER_BACKFILL_BLOCKS, scaled to the block numbers of the model.
BackfillBlocks == 1

Log(tx, idx, addr, block) ==
    [transactionHash |-> tx, logIndex |-> idx, address |-> addr,
     blockNumber |-> block]

\* The logs the node can deliver: one log in two spellings of its address,
\* a second log of the same transaction in an earlier block, and a pending
\* log of another transaction, without a block number.
LogUniverse ==
    {Log("0xa", 0, "0xCF", MaxBlock), Log("0xa", 0, "0xcf", MaxBlock),
     Log("0xa", 1, "0xcf", 1), Log("0xb", 0, "0xcf", Null)}

\* String.prototype.toLowerCase on the addresses of the model.
ToLowerCase(str) ==
    IF str = "0xCF" THEN "0xcf" ELSE IF str = "0xT1" THEN "0xt1" ELSE str

\* (mutant) the event id without the log index.
GetEventIdNoIndex(log) ==
    <<log.transactionHash, 0, ToLowerCase(log.address)>>

\* getEventId: `${txHash}:${logIndex}:${address.toLowerCase()}`
GetEventId(log) ==
    <<log.transactionHash, log.logIndex, ToLowerCase(log.address)>>

\* A log as the chain knows it: transaction, log index, emitting contract.
Identity(log) == <<log.transactionHash, log.logIndex, ToLowerCase(log.address)>>

Identities == {Identity(l) : l \in LogUniverse}

\* (mutant) the cursor follows the last accepted block, higher or lower.
MarkSniperCursorLast(cur, block) ==
    IF block = Null \/ block = 0 THEN cur
    ELSE [block |-> block, dirty |-> TRUE]

\* markSniperCursor on the pair (sniperLastSeenBlock, sniperCursorDirty).
MarkSniperCursor(cur, block) ==
    IF block = Null \/ block = 0 THEN cur
    ELSE IF cur.block = Null \/ block > cur.block
         THEN [block |-> block, dirty |-> TRUE]
         ELSE cur

\* The state the loop over a batch works on, and the logs it dispatched.
IngestState ==
    [ids |-> processedEventIds,
     cur |-> [block |-> sniperLastSeenBlock, dirty |-> sniperCursorDirty],
     accepted |-> <<>>]

\* (mutant) the loop body without processedEventIds.set.
AcceptLogUnmarked(st, log, t) ==
    LET h == LruHas(st.ids, GetEventId(log), t) IN
    IF h.found
    THEN [st EXCEPT !.ids = h.cache]
    ELSE [ids |-> h.cache,
          cur |-> MarkSniperCursor(st.cur, log.blockNumber),
          accepted |-> Append(st.accepted, log)]

\* One iteration of `for (const log of logs)`: skip a log whose event id
\* the dedup cache has, else mark it, advance the cursor and dispatch.
AcceptLog(st, log, t) ==
    LET h == LruHas(st.ids, GetEventId(log), t) IN
    IF h.found
    THEN [st EXCEPT !.ids = h.cache]
    ELSE [ids |-> LruSet(h.cache, GetEventId(log), TRUE, NoTtl, t,
                         DedupCapacity, DedupTtl),
          cur |-> MarkSniperCursor(st.cur, log.blockNumber),
          accepted |-> Append(st.accepted, log)]

RECURSIVE AcceptLogs(_, _, _)
AcceptLogs(st, logs, t) ==
    IF logs = <<>> THEN st
    ELSE AcceptLogs(AcceptLog(st, Head(logs), t), Tail(logs), t)

\* compareLogsByOrder(a, b) < 0
LogBefore(a, b) ==
    LET aBlock == IF a.blockNumber = Null THEN 0 ELSE a.blockNumber
        bBlock == IF b.blockNumber = Null THEN 0 ELSE b.blockNumber
    IN  IF aBlock = bBlock THEN a.logIndex < b.logIndex ELSE aBlock < bBlock

\* Array.prototype.sort(compareLogsByOrder): a stable sort.
RECURSIVE InsertSorted(_, _)
InsertSorted(sorted, log) ==
    IF sorted = <<>> THEN <<log>>
    ELSE IF LogBefore(log, Head(sorted))
         THEN <<log>> \o sorted
         ELSE <<Head(sorted)>> \o InsertSorted(Tail(sorted), log)

RECURSIVE SortLogs(_)
SortLogs(logs) ==
    IF logs = <<>> THEN <<>>
    ELSE InsertSorted(SortLogs(SubSeq(logs, 1, Len(logs) - 1)), logs[Len(logs)])

\* `logs.slice(-SNIPER_BACKFILL_MAX_LOGS)` when there are more logs.
ToProcess(logs) ==
    IF BackfillMaxLogs > 0 /\ Len(logs) > BackfillMaxLogs
    THEN SubSeq(logs, Len(logs) - BackfillMaxLogs + 1, Len(logs))
    ELSE logs

\* Sequences of at most n logs, and those without a repeated log.
SeqsUpTo(n) == UNION {[1..m -> LogUniverse] : m \in 1..n}

DistinctSeqsUpTo(n) ==
    {q \in SeqsUpTo(n) : \A i, j \in 1..Len(q) : i # j => q[i] # q[j]}

\* No handler task has settled; no cursor write has settled.
NotSettled == [id |-> <<>>, threw |-> FALSE]

NoWrite == [block |-> Null, ok |-> FALSE]

IngestInit ==
    /\ phase = "boot"
    /\ processedEventIds = <<>>
    /\ clock = 0
    /\ sniperLastSeenBlock = Null
    /\ sniperCursorDirty = FALSE
    /\ handlers = [id \in Identities |-> 0]
    /\ liveLogs = 0
    /\ deliveries = [id \in Identities |-> 0]
    /\ dispatches = [id \in Identities |-> 0]
    /\ markDeadline = [id \in Identities |-> Null]
    /\ lost = [id \in Identities |-> FALSE]
    /\ lowerSeen = FALSE
    /\ settled = NotSettled
    /\ backfilled = {}
    /\ writes = <<>>
    /\ lastWrite = NoWrite
    /\ cursorFile = Null

IngestOff ==
    /\ phase = "off"
    /\ processedEventIds = <<>>
    /\ clock = 0
    /\ sniperLastSeenBlock = Null
    /\ sniperCursorDirty = FALSE
    /\ handlers = <<>>
    /\ liveLogs = 0
    /\ deliveries = <<>>
    /\ dispatches = <<>>
    /\ markDeadline = <<>>
    /\ lost = <<>>
    /\ lowerSeen = FALSE
    /\ settled = NotSettled
    /\ backfilled = {}
    /\ writes = <<>>
    /\ lastWrite = NoWrite
    /\ cursorFile = Null

\* The identities whose mark is in the dedup Map and within its TTL.
Marked == {id \in Identities : MapHas(processedEventIds, id)
                                /\ clock <= markDeadline[id]}

\* The history kept beside a loop over `logs` that ends in state st. A
\* mark is lost in the loop when its key was in the Map and is gone, or was
\* accepted although it had been marked (before the loop or earlier in it):
\* the loop runs at one time, so only an eviction removes a key.
IngestHistory(st, logs) ==
    LET count(q, id) == Cardinality({i \in 1..Len(q) : Identity(q[i]) = id})
    IN  /\ deliveries' = [id \in Identities |->
                             Min(2, deliveries[id] + count(logs, id))]
        /\ dispatches' = [id \in Identities |->
                             dispatches[id] + count(st.accepted, id)]
        /\ handlers' = [id \in Identities |->
                           handlers[id] + count(st.accepted, id)]
        /\ markDeadline' = [id \in Identities |->
                               IF count(st.accepted, id) > 0
                                  /\ markDeadline[id] = Null
                               THEN clock + DedupTtl ELSE markDeadline[id]]
        /\ lost' = [id \in Identities |->
                       \/ lost[id]
                       \/ id \in Marked /\ ~MapHas(st.ids, id)
                       \/ id \in Marked /\ count(st.accepted, id) > 0
                       \/ count(st.accepted, id) > 1]
        /\ lowerSeen' =
            (lowerSeen \/ \E i \in 1..Len(st.accepted) :
                            /\ st.accepted[i].blockNumber \in Blocks \ {0}
                            /\ sniperLastSeenBlock # Null
                            /\ st.accepted[i].blockNumber < sniperLastSeenBlock)

\* main: the cursor is what readSniperCursor found in the cursor file, or
\* with no usable file the block the node reported at connection time,
\* which is marked dirty; the flush interval starts.
MainLoadCursor(fileBlock, connectedBlock) ==
    /\ phase = "boot"
    /\ IF fileBlock = Null
       THEN /\ sniperLastSeenBlock' = connectedBlock
            /\ sniperCursorDirty' = TRUE
       ELSE /\ sniperLastSeenBlock' = fileBlock
            /\ UNCHANGED sniperCursorDirty
    /\ phase' = "backfill"
    /\ UNCHANGED <<processedEventIds, clock, handlers, liveLogs, deliveries,
                   dispatches, markDeadline, lost, lowerSeen,
                   settled, backfilled, writes, lastWrite>>
    /\ cursorFile' = fileBlock

\* backfillRecentEvents with the logs the node returned for the window
\* [cursor - SNIPER_BACKFILL_BLOCKS, currentBlock]; then main subscribes.
Backfill(currentBlock, logs) ==
    /\ phase = "backfill"
    /\ LET cursor == sniperLastSeenBlock
           fromBlock == IF cursor > BackfillBlocks
                        THEN cursor - BackfillBlocks ELSE 0
           inWindow == \A i \in 1..Len(logs) :
                          /\ logs[i].blockNumber # Null
                          /\ logs[i].blockNumber >= fromBlock
                          /\ logs[i].blockNumber <= currentBlock
       IN  /\ inWindow
           /\ fromBlock >= currentBlock => logs = <<>>
           /\ \E toProcess \in {ToProcess(SortLogs(logs))} :
              \E st \in {AcceptLogs(IngestState, toProcess, clock)} :
                /\ processedEventIds' = st.ids
                /\ sniperLastSeenBlock' = st.cur.block
                /\ sniperCursorDirty' = st.cur.dirty
                /\ IngestHistory(st, toProcess)
                /\ backfilled' = {Identity(logs[i]) : i \in 1..Len(logs)}
    /\ phase' = "live"
    /\ UNCHANGED <<clock, liveLogs, settled, writes, lastWrite,
                   cursorFile>>

\* onLogs of a subscription, with the batch the transport delivered.
OnLogs(logs) ==
    /\ phase = "live"
    /\ liveLogs + Len(logs) <= MaxLiveLogs
    /\ liveLogs' = liveLogs + Len(logs)
    /\ \E st \in {AcceptLogs(IngestState, logs, clock)} :
        /\ processedEventIds' = st.ids
        /\ sniperLastSeenBlock' = st.cur.block
        /\ sniperCursorDirty' = st.cur.dirty
        /\ IngestHistory(st, logs)
    /\ UNCHANGED <<phase, clock, settled, backfilled, writes, lastWrite,
                   cursorFile>>

\* (mutant) the catch block leaves the mark of the event id in place.
CatchHandlerErrorKeepsMark(ids, id, threw) == ids

\* The try/catch around a handler: when the handler threw, the catch block
\* deletes its event id from the dedup cache.
CatchHandlerError(ids, id, threw) ==
    IF threw THEN LruDelete(ids, id) ELSE ids

\* A handler task settles.
HandlerSettles(id, threw) ==
    /\ handlers[id] > 0
    /\ handlers' = [handlers EXCEPT ![id] = @ - 1]
    /\ processedEventIds' = CatchHandlerError(processedEventIds, id, threw)
    /\ lost' = [lost EXCEPT ![id] = @ \/ threw]
    /\ settled' = [id |-> id, threw |-> threw]
    /\ UNCHANGED <<phase, clock, sniperLastSeenBlock, sniperCursorDirty,
                   liveLogs, deliveries, dispatches,
                   markDeadline, lowerSeen, backfilled, writes, lastWrite,
                   cursorFile>>

\* Cursor writes in flight at one time: the interval does not wait for the
\* write of the tick before.
MaxWrites == 2

\* (mutant) a failed write leaves the flag cleared.
FlagAfterWriteCleared(flag, ok) == flag

\* The catch block of flushSniperCursor: a failed write sets the flag again,
\* a successful one leaves it as it is by then.
FlagAfterWrite(flag, ok) == IF ok THEN flag ELSE TRUE

\* A tick of the cursor interval whose write settles before anything else
\* happens: flushSniperCursor. The flag is cleared, the cursor is written to
\* its file, and a failed write sets the flag again.
FlushSniperCursor(ok) ==
    /\ phase # "boot"
    /\ sniperCursorDirty
    /\ sniperLastSeenBlock # Null
    /\ writes = <<>>
    /\ sniperCursorDirty' = FlagAfterWrite(FALSE, ok)
    /\ UNCHANGED <<phase, processedEventIds, clock, sniperLastSeenBlock,
                   handlers, liveLogs, deliveries, dispatches, markDeadline,
                   lost, lowerSeen, settled, backfilled, writes, lastWrite>>
    /\ cursorFile' = IF ok THEN sniperLastSeenBlock ELSE cursorFile

\* A tick of the cursor interval: flushSniperCursor up to its await. With
\* the flag set and a cursor, the flag is cleared and the write of the
\* cursor begins.
FlushBegins ==
    /\ phase # "boot"
    /\ sniperCursorDirty
    /\ sniperLastSeenBlock # Null
    /\ Len(writes) < MaxWrites
    /\ sniperCursorDirty' = FALSE
    /\ writes' = Append(writes, sniperLastSeenBlock)
    /\ UNCHANGED <<phase, processedEventIds, clock, sniperLastSeenBlock,
                   handlers, liveLogs, deliveries, dispatches, markDeadline,
                   lost, lowerSeen, settled, backfilled, lastWrite,
                   cursorFile>>

\* writeSniperCursor settles and flushSniperCursor resumes after its await:
\* a write that succeeded has renamed its temporary file to the cursor
\* file; the error of a failed write is caught.
WriteSettles(i, ok) ==
    /\ i \in 1..Len(writes)
    /\ writes' = SubSeq(writes, 1, i - 1) \o SubSeq(writes, i + 1, Len(writes))
    /\ lastWrite' = [block |-> writes[i], ok |-> ok]
    /\ cursorFile' = IF ok THEN writes[i] ELSE cursorFile
    /\ sniperCursorDirty' = FlagAfterWrite(sniperCursorDirty, ok)
    /\ UNCHANGED <<phase, processedEventIds, clock, sniperLastSeenBlock,
                   handlers, liveLogs, deliveries, dispatches, markDeadline,
                   lost, lowerSeen, settled, backfilled>>

\* The prune interval: processedEventIds.prune().
PruneDedup ==
    /\ phase = "live"
    /\ processedEventIds' = LruPrune(processedEventIds, clock)
    /\ lost' = [id \in Identities |->
                   lost[id] \/ (id \in Marked
                                /\ ~MapHas(processedEventIds', id))]
    /\ UNCHANGED <<phase, clock, sniperLastSeenBlock, sniperCursorDirty,
                   handlers, liveLogs, deliveries,
                   dispatches, markDeadline, lowerSeen,
                   settled, backfilled, writes, lastWrite,
                   cursorFile>>

\* Time runs until the TTL of a mark made at the start has run out.
MaxClock == DedupTtl + 1

ClockTick ==
    /\ phase = "live"
    /\ clock < MaxClock
    /\ clock' = clock + 1
    /\ UNCHANGED <<phase, processedEventIds, sniperLastSeenBlock,
                   sniperCursorDirty, handlers, liveLogs,
                   deliveries, dispatches, markDeadline, lost, lowerSeen,
                   settled, backfilled, writes, lastWrite,
                   cursorFile>>

-----------------------------------------------------------------------------
(* The reputation policy (sniper.ts): evaluateCreator.                     *)

\* MIN_NEYNAR, in hundredths (0.90).
MIN_NEYNAR == 90

MIN_TWITTER_FOLLOWERS == 70000

MIN_TWITTER_MINIMUM == 5000

MIN_FARCASTER_FOLLOWERS == 10000

\* Follower counts and scores on both sides of every threshold; Null is an
\* unknown (undefined) one. Scores are in hundredths.
TwitterCounts ==
    {Null, 0, MIN_TWITTER_MINIMUM - 1, MIN_TWITTER_MINIMUM,
     MIN_TWITTER_FOLLOWERS - 1, MIN_TWITTER_FOLLOWERS}

FarcasterCounts ==
    {Null, MIN_FARCASTER_FOLLOWERS - 1, MIN_FARCASTER_FOLLOWERS}

NeynarScores == {Null, MIN_NEYNAR - 1, MIN_NEYNAR}

\* The fields of CreatorInfo the policy reads.
CreatorScores ==
    [neynarScore : NeynarScores, twitterFollowers : TwitterCounts,
     farcasterFollowers : FarcasterCounts]

\* twitterBigAccount / twitterPasses
TwitterBigAccount(ci) ==
    ci.twitterFollowers # Null /\ ci.twitterFollowers >= MIN_TWITTER_FOLLOWERS

\* neynarScore !== undefined && neynarScore >= SNIPER_MIN_NEYNAR_SCORE
ScoreAtFloor(ci) == ci.neynarScore # Null /\ ci.neynarScore >= MIN_NEYNAR

\* (mutant) the score gate without the bypass for a big Twitter account.
NeynarPassesNoBypass(ci, gate) == ~gate \/ ScoreAtFloor(ci)

NeynarPasses(ci, gate) ==
    ~gate \/ TwitterBigAccount(ci) \/ ScoreAtFloor(ci)

\* (mutant) the Twitter floor applied only when Farcaster does not pass.
TwitterMinimumPassesUnlessFarcaster(ci) ==
    \/ ci.twitterFollowers = Null
    \/ ci.twitterFollowers >= MIN_TWITTER_MINIMUM
    \/ (ci.farcasterFollowers # Null
        /\ ci.farcasterFollowers >= MIN_FARCASTER_FOLLOWERS)

TwitterMinimumPasses(ci) ==
    ci.twitterFollowers = Null \/ ci.twitterFollowers >= MIN_TWITTER_MINIMUM

FarcasterPasses(ci) ==
    ci.farcasterFollowers # Null
    /\ ci.farcasterFollowers >= MIN_FARCASTER_FOLLOWERS

FollowerPasses(ci) == TwitterBigAccount(ci) \/ FarcasterPasses(ci)

\* The reasons pushed when the evaluation fails, each by the text before
\* its colon.
EvaluationReasons(ci, gate) ==
    (IF gate /\ ~NeynarPasses(ci, gate) /\ ~TwitterBigAccount(ci)
     THEN IF ci.neynarScore # Null THEN <<"neynar_low">>
          ELSE <<"neynar_unavailable">>
     ELSE <<>>)
    \o (IF ~TwitterMinimumPasses(ci) THEN <<"twitter_below_5k">> ELSE <<>>)
    \o (IF ~FollowerPasses(ci) THEN <<"followers_low">> ELSE <<>>)

\* evaluateCreator under a setting of SNIPER_NEYNAR_GATE_ENABLED.
EvaluateCreator(ci, gate) ==
    LET passes == /\ NeynarPasses(ci, gate)
                  /\ TwitterMinimumPasses(ci)
                  /\ FollowerPasses(ci)
    IN  [passes |-> passes,
         reasons |-> IF passes THEN <<>> ELSE EvaluationReasons(ci, gate)]

NotEvaluated == [passes |-> FALSE, reasons |-> <<"not_evaluated">>]

EvalInit ==
    /\ creator \in CreatorScores
    /\ gateEnabled \in BOOLEAN
    /\ evaluation = NotEvaluated

EvalOff ==
    /\ creator = <<>>
    /\ gateEnabled = FALSE
    /\ evaluation = NotEvaluated

Evaluate ==
    /\ evaluation = NotEvaluated
    /\ evaluation' = EvaluateCreator(creator, gateEnabled)
    /\ UNCHANGED <<creator, gateEnabled>>

-----------------------------------------------------------------------------
(* Validation (sniper.ts): validateTokenFast, validateToken with the       *)
(* creator lookups, checkCreatorSpamAndRecord, and the branch the event    *)
(* handlers and scheduleSlowValidation take on the result.                 *)

MAX_TOKENS_PER_CREATOR == 2

\* Validations enough to open a window, count a token late in it, then
\* fill the next window and validate one token more.
MaxValidations == MAX_TOKENS_PER_CREATOR + 3

\* An absent string (undefined); as in the source it is falsy.
NoString == ""

PLATFORM_FIDS == {"886870"}

\* The people who launch tokens: their Farcaster ID (as its decimal
\* string), Twitter handle and reputation. alice passes by her Farcaster
\* followers, bankr is the deny-listed platform identity and would pass by
\* them too, bob has no Farcaster account and passes as a big Twitter
\* account.
Alice == [fid |-> "99", twitterHandle |-> NoString, neynarScore |-> MIN_NEYNAR,
          twitterFollowers |-> Null,
          farcasterFollowers |-> MIN_FARCASTER_FOLLOWERS]

Bankr == [fid |-> "886870", twitterHandle |-> NoString,
          neynarScore |-> MIN_NEYNAR, twitterFollowers |-> Null,
          farcasterFollowers |-> MIN_FARCASTER_FOLLOWERS]

Bob == [fid |-> NoString, twitterHandle |-> "bob", neynarScore |-> Null,
        twitterFollowers |-> MIN_TWITTER_FOLLOWERS,
        farcasterFollowers |-> Null]

\* The tokens (TokenInfo) the handlers validate, each with the platform it
\* was launched on and the person who launched it; the first token comes in
\* two spellings of its address.
Token(addr, platform, who) ==
    [address |-> addr, platform |-> platform, launchedBy |-> who]

Tokens ==
    {Token("0xT1", "zora", Alice), Token("0xt1", "zora", Alice),
     Token("0xt2", "clanker", Alice), Token("0xt3", "zora", Alice),
     Token("0xb1", "zora", Bankr), Token("0xb2", "clanker", Bankr),
     Token("0xc1", "clanker", Bob)}

TokenKeys == {ToLowerCase(t.address) : t \in Tokens}

CreatorKeys == {"99", "886870", "bob"}

\* creatorInfo.fid?.toString() || creatorInfo.twitterHandle || "unknown"
CreatorKey(ci) ==
    IF ci.fid # NoString THEN ci.fid
    ELSE IF ci.twitterHandle # NoString THEN ci.twitterHandle
    ELSE "unknown"

NoCreatorData == [count |-> 0, firstSeen |-> Null]

\* !creatorData || now - creatorData.firstSeen > CREATOR_WINDOW_MS
WindowOver(creatorData, t) ==
    creatorData = NoCreatorData \/ t - creatorData.firstSeen > CreatorWindow

\* (mutant) the limit compared with > instead of >=.
AtLimitOffByOne(creatorData) == creatorData.count > MAX_TOKENS_PER_CREATOR

\* creatorData.count >= MAX_TOKENS_PER_CREATOR
AtLimit(creatorData) == creatorData.count >= MAX_TOKENS_PER_CREATOR

\* (mutant) the spam check without the lookup of the token key.
AlreadyCountedNever(counted, tokenKey, t) ==
    [cache |-> counted, found |-> FALSE]

\* spamCountedTokens.has(tokenKey)
AlreadyCounted(counted, tokenKey, t) == LruHas(counted, tokenKey, t)

\* checkCreatorSpamAndRecord on (creatorTokenCount, spamCountedTokens):
\* the two afterwards, the answer, and how it was reached.
CheckCreatorSpamAndRecord(counts, counted, ci, tokenAddress, t) ==
    LET tokenKey == ToLowerCase(tokenAddress)
        h == AlreadyCounted(counted, tokenKey, t)
        creatorKey == CreatorKey(ci)
        record == LruSet(h.cache, tokenKey, TRUE, NoTtl, t,
                         SpamCapacity, CreatorWindow)
    IN  IF h.found
        THEN [counts |-> counts, counted |-> h.cache, passes |-> TRUE,
              reason |-> NoString, how |-> "already_counted"]
        ELSE IF creatorKey = "unknown"
        THEN [counts |-> counts, counted |-> h.cache, passes |-> TRUE,
              reason |-> NoString, how |-> "unknown_creator"]
        ELSE IF WindowOver(counts[creatorKey], t)
        THEN [counts |-> [counts EXCEPT ![creatorKey] =
                             [count |-> 1, firstSeen |-> t]],
              counted |-> record, passes |-> TRUE,
              reason |-> NoString, how |-> "new_window"]
        ELSE IF AtLimit(counts[creatorKey])
        THEN [counts |-> counts, counted |-> h.cache, passes |-> FALSE,
              reason |-> "spam", how |-> "limit"]
        ELSE [counts |-> [counts EXCEPT ![creatorKey].count = @ + 1],
              counted |-> record, passes |-> TRUE,
              reason |-> NoString, how |-> "counted"]

\* The CreatorInfo a lookup that found the person yields.
CreatorInfoOf(who) == who

\* A lookup that found the Zora profile but not the Farcaster user: no fid,
\* no score; the follower count is the profile's.
WithoutNeynar(who) ==
    [who EXCEPT !.fid = NoString, !.neynarScore = Null]

NoCreatorInfo == [fid |-> NoString, twitterHandle |-> NoString,
                  neynarScore |-> Null, twitterFollowers |-> Null,
                  farcasterFollowers |-> Null]

Rejected(reason) ==
    [passes |-> FALSE, reasons |-> <<reason>>, creatorInfo |-> NoCreatorInfo,
     resolved |-> FALSE]

\* getNeynarUserByAddress: the user of the token's creator address, when
\* the lookup answers in time and the person has a Farcaster account.
NeynarByAddress(token, found) ==
    IF found /\ token.launchedBy.fid # NoString
    THEN CreatorInfoOf(token.launchedBy) ELSE NoCreatorInfo

\* PLATFORM_FIDS.has(fid)
IsPlatformFid(fid) == fid \in PLATFORM_FIDS

\* getClankerCreator: null when the API has no token yet or the requestor
\* is a platform FID, else the CreatorInfo.
GetClankerCreator(token, found) ==
    IF ~found THEN NoCreatorInfo
    ELSE IF token.launchedBy.fid # NoString
            /\ IsPlatformFid(token.launchedBy.fid)
         THEN NoCreatorInfo
         ELSE CreatorInfoOf(token.launchedBy)

\* The lookups a slow validation depends on: whether the platform API or
\* the by-address lookup found the creator, the status of the Zora lookup,
\* and whether the Farcaster user of the Zora profile was found.
Lookups ==
    [found : BOOLEAN,
     zoraStatus : {"success", "not_found", "api_error_503"},
     neynarByUsername : BOOLEAN]

\* The lookups that make a difference for a token: the Clanker path makes
\* one lookup, the Zora path looks the Farcaster user up by username when
\* the Zora API succeeds and by address when it does not.
LookupsFor(token) ==
    {lk \in Lookups :
        IF token.platform = "clanker"
        THEN lk.zoraStatus = "success" /\ lk.neynarByUsername
        ELSE IF lk.zoraStatus = "success" THEN lk.found
             ELSE lk.neynarByUsername}

\* The creator the slow path resolves, or NoCreatorInfo with the reason.
ResolveSlow(token, lk) ==
    IF token.platform = "clanker"
    THEN LET ci == GetClankerCreator(token, lk.found) IN
         [creatorInfo |-> ci,
          reason |-> IF ci = NoCreatorInfo THEN "creator_not_found"
                     ELSE NoString]
    ELSE IF lk.zoraStatus = "success"
    THEN [creatorInfo |-> IF lk.neynarByUsername
                          THEN CreatorInfoOf(token.launchedBy)
                          ELSE WithoutNeynar(token.launchedBy),
          reason |-> NoString]
    ELSE LET ci == NeynarByAddress(token, lk.found) IN
         [creatorInfo |-> ci,
          reason |-> IF ci # NoCreatorInfo THEN NoString
                     ELSE IF lk.zoraStatus = "api_error_503"
                          THEN "api_error_503" ELSE "creator_not_found"]

\* evaluateCreator, then checkCreatorSpamAndRecord when it passes: the
\* tail of validateTokenFast and of validateToken.
EvaluateAndRecord(counts, counted, ci, token, t) ==
    LET ev == EvaluateCreator(ci, gateEnabled)
        spam == CheckCreatorSpamAndRecord(counts, counted, ci,
                                          token.address, t)
    IN  IF ~ev.passes
        THEN [counts |-> counts, counted |-> counted, checked |-> FALSE,
              how |-> "not_checked",
              result |-> [passes |-> FALSE, reasons |-> ev.reasons,
                          creatorInfo |-> ci, resolved |-> TRUE]]
        ELSE [counts |-> spam.counts, counted |-> spam.counted,
              checked |-> TRUE, how |-> spam.how,
              result |-> [passes |-> spam.passes,
                          reasons |-> IF spam.passes THEN ev.reasons
                                      ELSE Append(ev.reasons, spam.reason),
                          creatorInfo |-> ci, resolved |-> TRUE]]

Unchecked(result) ==
    [counts |-> creatorTokenCount, counted |-> spamCountedTokens,
     checked |-> FALSE, how |-> "not_checked", result |-> result]

\* validateTokenFast
ValidateTokenFast(token, found) ==
    LET ci == NeynarByAddress(token, found) IN
    IF ci = NoCreatorInfo THEN Unchecked(Rejected("creator_not_found_fast"))
    ELSE IF IsPlatformFid(ci.fid) THEN Unchecked(Rejected("platform_fid"))
    ELSE EvaluateAndRecord(creatorTokenCount, spamCountedTokens, ci, token,
                           dateNow)

\* validateToken; a call that does not find the creator changes nothing.
ValidateToken(token, lk) ==
    LET r == ResolveSlow(token, lk) IN
    IF r.creatorInfo = NoCreatorInfo THEN Unchecked(Rejected(r.reason))
    ELSE EvaluateAndRecord(creatorTokenCount, spamCountedTokens,
                           r.creatorInfo, token, dateNow)

\* The maxRetries scheduleSlowValidation passes to validateTokenWithRetry.
SlowMaxRetries == 3

\* Whether validateTokenWithRetry returns the result or tries again.
Retryable(result) ==
    \E i \in 1..Len(result.reasons) :
        result.reasons[i] \in {"creator_not_found", "api_error_503"}

\* For how many calls of validateToken a new token is not indexed yet:
\* none, as many as there are retries, or one more.
NotIndexedCalls == {0, SlowMaxRetries, SlowMaxRetries + 1}

\* (mutant) the loop stops one attempt earlier.
LoopContinuesBelow(tries, maxRetries) == tries < maxRetries

\* attempt <= maxRetries
LoopContinues(tries, maxRetries) == tries <= maxRetries

\* validateTokenWithRetry from the given attempt on, when the creator is
\* not indexed for the next `failures` calls of validateToken and the
\* lookups answer lk afterwards: the result and the calls made in all.
\* The delays between the calls are short against the spam window.
RECURSIVE ValidateTokenWithRetry(_, _, _, _, _)
ValidateTokenWithRetry(token, lk, failures, tries, maxRetries) ==
    IF ~LoopContinues(tries, maxRetries)
    THEN [v |-> Unchecked(Rejected("creator_not_found_after_retries")),
          calls |-> tries]
    ELSE LET v == IF failures > 0
                  THEN Unchecked(Rejected("creator_not_found"))
                  ELSE ValidateToken(token, lk)
         IN  IF ~Retryable(v.result) THEN [v |-> v, calls |-> tries + 1]
             ELSE ValidateTokenWithRetry(
                      token, lk, IF failures > 0 THEN failures - 1 ELSE 0,
                      tries + 1, maxRetries)

NotValidated ==
    [key |-> NoString, path |-> "none", checked |-> FALSE,
     how |-> "not_checked", result |-> Rejected("not_validated"),
     inWindow |-> FALSE, evicted |-> FALSE, atLimit |-> FALSE,
     further |-> FALSE, calls |-> 0]

ValInit ==
    /\ dateNow = 0
    /\ creatorTokenCount = [k \in CreatorKeys |-> NoCreatorData]
    /\ spamCountedTokens = <<>>
    /\ slowValidationInFlight = {}
    /\ validation = NotValidated
    /\ validations = 0
    /\ dispatchedFids = {}
    /\ increments = [k \in TokenKeys |-> 0]
    /\ windowEnd = [k \in TokenKeys |-> Null]
    /\ spamEvicted = [k \in TokenKeys |-> FALSE]
    /\ windowPassed = [k \in CreatorKeys |-> {}]
    /\ windowCounted = [k \in CreatorKeys |-> {}]

ValOff ==
    /\ dateNow = 0
    /\ creatorTokenCount = <<>>
    /\ spamCountedTokens = <<>>
    /\ slowValidationInFlight = {}
    /\ validation = NotValidated
    /\ validations = 0
    /\ dispatchedFids = {}
    /\ increments = <<>>
    /\ windowEnd = <<>>
    /\ spamEvicted = <<>>
    /\ windowPassed = <<>>
    /\ windowCounted = <<>>

\* The creator's rolling window is open at time t.
WindowOpen(counts, creatorKey, t) ==
    /\ creatorKey \in CreatorKeys
    /\ ~WindowOver(counts[creatorKey], t)

\* The token's mark is in the cache and has not expired.
LiveMark(counted, tokenKey, t) ==
    MapHas(counted, tokenKey) /\ ~IsExpired(MapGet(counted, tokenKey), t)

\* The state after a validation that came out as v, with its history:
\* the calls of validateToken made, whether the token had been counted in
\* a window that is still open (inWindow), whether the creator's counter was at the limit and the token
\* unmarked (atLimit), whether the token came after MAX_TOKENS_PER_CREATOR
\* others had passed in the window (further), which tokens were counted
\* and which passed in the creator's window, and which live marks the
\* cache dropped for lack of room.
Validated(token, path, v, made) ==
    LET tk == ToLowerCase(token.address)
        creatorKey == CreatorKey(v.result.creatorInfo)
        countedNow == v.how \in {"new_window", "counted"}
        inWin == windowEnd[tk] # Null /\ dateNow <= windowEnd[tk]
        open == WindowOpen(creatorTokenCount, creatorKey, dateNow)
    IN  /\ creatorTokenCount' = v.counts
        /\ spamCountedTokens' = v.counted
        /\ validation' =
              [key |-> tk, path |-> path, checked |-> v.checked,
               how |-> v.how, result |-> v.result, inWindow |-> inWin,
               evicted |-> spamEvicted[tk],
               atLimit |-> /\ open
                           /\ AtLimit(creatorTokenCount[creatorKey])
                           /\ ~LiveMark(spamCountedTokens, tk, dateNow),
               further |-> /\ open
                           /\ Cardinality(windowPassed[creatorKey])
                                 >= MAX_TOKENS_PER_CREATOR
                           /\ tk \notin windowPassed[creatorKey],
               calls |-> made]
        /\ validations' = validations + 1
        /\ increments' =
              IF countedNow
              THEN [increments EXCEPT ![tk] = IF inWin THEN @ + 1 ELSE 1]
              ELSE increments
        /\ windowEnd' =
              IF countedNow /\ ~inWin
              THEN [windowEnd EXCEPT
                      ![tk] = v.counts[creatorKey].firstSeen + CreatorWindow]
              ELSE windowEnd
        /\ spamEvicted' =
              [k \in TokenKeys |->
                 IF k = tk /\ countedNow /\ ~inWin THEN FALSE
                 ELSE \/ spamEvicted[k]
                      \/ /\ LiveMark(spamCountedTokens, k, dateNow)
                         /\ ~MapHas(v.counted, k)]
        /\ windowPassed' =
              IF v.how = "new_window"
              THEN [windowPassed EXCEPT ![creatorKey] = {tk}]
              ELSE IF v.how = "counted" \/ (v.how = "already_counted" /\ open)
              THEN [windowPassed EXCEPT ![creatorKey] = @ \cup {tk}]
              ELSE windowPassed
        /\ windowCounted' =
              IF v.how = "new_window"
              THEN [windowCounted EXCEPT ![creatorKey] = {tk}]
              ELSE IF v.how = "counted"
              THEN [windowCounted EXCEPT ![creatorKey] = @ \cup {tk}]
              ELSE windowCounted

\* The pass branch of a handler or of scheduleSlowValidation: the create
\* alert and the watchlist insertion for the validated creator.
PassBranch(result) ==
    dispatchedFids' = IF result.passes
                      THEN dispatchedFids \cup {result.creatorInfo.fid}
                      ELSE dispatchedFids

\* handleClankerEvent / handleZoraEvent: fast validation; on a pass the
\* alert and watchlist branch, otherwise scheduleSlowValidation.
HandleEvent(token, found) ==
    /\ validations < MaxValidations
    /\ \E v \in {ValidateTokenFast(token, found)} :
          /\ Validated(token, "fast", v, 1)
          /\ PassBranch(v.result)
          /\ slowValidationInFlight' =
                IF v.result.passes THEN slowValidationInFlight
                ELSE slowValidationInFlight \cup {ToLowerCase(token.address)}
    /\ UNCHANGED dateNow

\* The task scheduleSlowValidation started: validateTokenWithRetry, the
\* pass branch, and in the end the token leaves the in-flight set.
SlowValidation(token, lk, failures) ==
    /\ validations < MaxValidations
    /\ ToLowerCase(token.address) \in slowValidationInFlight
    /\ \E r \in {ValidateTokenWithRetry(token, lk, failures, 0,
                                        SlowMaxRetries)} :
          /\ Validated(token, "slow", r.v, r.calls)
          /\ PassBranch(r.v.result)
    /\ slowValidationInFlight' =
          slowValidationInFlight \ {ToLowerCase(token.address)}
    /\ UNCHANGED dateNow

\* The hourly interval: creators whose window is over are forgotten.
PruneCreators ==
    /\ \E k \in CreatorKeys :
          /\ creatorTokenCount[k] # NoCreatorData
          /\ dateNow - creatorTokenCount[k].firstSeen > CreatorWindow
    /\ creatorTokenCount' =
          [k \in CreatorKeys |->
             IF /\ creatorTokenCount[k] # NoCreatorData
                /\ dateNow - creatorTokenCount[k].firstSeen > CreatorWindow
             THEN NoCreatorData ELSE creatorTokenCount[k]]
    /\ UNCHANGED <<dateNow, spamCountedTokens, slowValidationInFlight,
                   validation, validations, dispatchedFids, increments,
                   windowEnd, spamEvicted, windowPassed, windowCounted>>

MaxDateNow == CreatorWindow + 1

DateNowAdvances ==
    /\ dateNow < MaxDateNow
    /\ dateNow' = dateNow + 1
    /\ UNCHANGED <<creatorTokenCount, spamCountedTokens,
                   slowValidationInFlight, validation, validations,
                   dispatchedFids, increments, windowEnd, spamEvicted,
                   windowPassed, windowCounted>>

-----------------------------------------------------------------------------
(* The liquidity watchlist and the alerts (sniper.ts): the pass branch of  *)
(* the handlers, addToWatchlist, sendCreateAlert, checkWatchlistLiquidity. *)

MIN_LIQUIDITY_USD == 5000

\* SNIPER_CREATE_ALERT_DEDUP_TTL_MS: six times the maximum watch age.
CreateAlertTtl == 6 * WatchlistMaxAge

\* The settings: SNIPER_ALERT_ON_CREATE, SNIPER_ALERT_ON_LIQUIDITY,
\* SNIPER_LIQUIDITY_ALERT_AFTER_CREATE and whether auto-buy is ready.
DefaultConfig ==
    [alertOnCreate |-> TRUE, alertOnLiquidity |-> TRUE,
     liquidityAfterCreate |-> FALSE, autoBuyReady |-> FALSE]

\* The default settings and the ones that differ from them in one way:
\* liquidity alerts also after a create alert, no create alerts, and no
\* liquidity alerts with auto-buy ready.
Configs ==
    {DefaultConfig,
     [DefaultConfig EXCEPT !.liquidityAfterCreate = TRUE],
     [DefaultConfig EXCEPT !.alertOnCreate = FALSE],
     [DefaultConfig EXCEPT !.alertOnLiquidity = FALSE, !.autoBuyReady = TRUE]}

\* The tokens that pass validation: two of alice, the first in two
\* spellings, and one of bob, a big Twitter account.
WatchTokens == {t \in Tokens : t.address \in {"0xT1", "0xt1", "0xt2", "0xc1"}}

WatchKeys == {ToLowerCase(t.address) : t \in WatchTokens}

ShouldWatchLiquidity(cfg) == cfg.alertOnLiquidity \/ cfg.autoBuyReady

\* Map.prototype.set: the value of a key the Map has is replaced in place,
\* another key is appended.
MapSet(c, e) ==
    IF MapHas(c, e.key)
    THEN [i \in 1..Len(c) |-> IF c[i].key = e.key THEN e ELSE c[i]]
    ELSE MapAppend(c, e)

\* (mutant) the membership test on the address as given.
AlreadyWatchedExact(pending, address) == MapHas(pending, address)

\* pendingTokens.has(token.address.toLowerCase())
AlreadyWatched(pending, address) == MapHas(pending, ToLowerCase(address))

\* addToWatchlist: the watchlist afterwards.
AddToWatchlist(pending, token, creatorInfo, t) ==
    IF AlreadyWatched(pending, token.address) THEN pending
    ELSE MapSet(pending,
                [key |-> ToLowerCase(token.address), token |-> token,
                 creatorInfo |-> creatorInfo, addedAt |-> t,
                 lastChecked |-> 0, checkCount |-> 0])

\* (mutant) sendCreateAlert without the test of createAlertedTokens.
SendCreateAlertAlways(alerted, token, t) ==
    LET tokenKey == ToLowerCase(token.address)
        h == LruHas(alerted, tokenKey, t)
    IN  [alerted |-> LruSet(h.cache, tokenKey, TRUE, NoTtl, t,
                            CreateAlertCapacity, CreateAlertTtl),
         sent |-> TRUE]

\* sendCreateAlert: the cache afterwards, and whether the alert was sent.
SendCreateAlert(alerted, token, t) ==
    LET tokenKey == ToLowerCase(token.address)
        h == LruHas(alerted, tokenKey, t)
    IN  IF h.found THEN [alerted |-> h.cache, sent |-> FALSE]
        ELSE [alerted |-> LruSet(h.cache, tokenKey, TRUE, NoTtl, t,
                                 CreateAlertCapacity, CreateAlertTtl),
              sent |-> TRUE]

\* (mutant) the age test one tick late.
IsWatchExpiredLate(pending, t) == t - pending.addedAt > WatchlistMaxAge + 1

\* age > WATCHLIST_MAX_AGE_MS
IsWatchExpired(pending, t) == t - pending.addedAt > WatchlistMaxAge

\* now - pending.lastChecked < WATCHLIST_CHECK_INTERVAL_MS
CheckedRecently(pending, t) == t - pending.lastChecked < CheckInterval

\* The first loop of checkWatchlistLiquidity.
ExpiredKeys(pending, t) ==
    {e.key : e \in {x \in Range(pending) : IsWatchExpired(x, t)}}

DueKeys(pending, t) ==
    {e.key : e \in {x \in Range(pending) :
                       ~IsWatchExpired(x, t) /\ ~CheckedRecently(x, t)}}

MarkChecked(pending, due, t) ==
    [i \in 1..Len(pending) |->
        IF pending[i].key \in due
        THEN [pending[i] EXCEPT !.lastChecked = t, !.checkCount = @ + 1]
        ELSE pending[i]]

\* The loops that delete the keys of toRemove.
RemoveAll(pending, toRemove) ==
    SelectSeq(pending, LAMBDA e : e.key \notin toRemove)

\* What fetchPairsForToken and aggregateTokenMetrics yield for a token:
\* an error, no pairs, or a total liquidity around the threshold.
LiquidityResults ==
    {[kind |-> "error", liquidity |-> Null],
     [kind |-> "no_pairs", liquidity |-> Null]}
    \cup {[kind |-> "pairs", liquidity |-> l] :
            l \in {MIN_LIQUIDITY_USD - 1, MIN_LIQUIDITY_USD,
                   MIN_LIQUIDITY_USD + 1000}}

LiquidityMet(res) ==
    res.kind = "pairs" /\ res.liquidity >= MIN_LIQUIDITY_USD

\* shouldSendLiquidity, with the cache after the lookup it may make.
ShouldSendLiquidity(cfg, alerted, tokenKey, t) ==
    IF ~cfg.alertOnLiquidity THEN [alerted |-> alerted, send |-> FALSE]
    ELSE IF cfg.liquidityAfterCreate THEN [alerted |-> alerted, send |-> TRUE]
    ELSE LET h == LruHas(alerted, tokenKey, t) IN
         [alerted |-> h.cache, send |-> ~h.found]

NoPass == [active |-> FALSE, now |-> Null, toRemove |-> {}, toCheck |-> {}]

NoAdd == [key |-> NoString, watched |-> FALSE]

NotDetected ==
    [key |-> NoString, big |-> FALSE, alerted |-> FALSE, sent |-> FALSE]

WatchInit ==
    /\ config \in Configs
    /\ watchNow = CheckInterval
    /\ pendingTokens = <<>>
    /\ createAlertedTokens = <<>>
    /\ pass = NoPass
    /\ detections = 0
    /\ lastAdd = NoAdd
    /\ removed = {}
    /\ readded = {}
    /\ liquidityAlerts = [k \in WatchKeys |-> 0]
    /\ hit = [k \in WatchKeys |-> Null]
    /\ expired = {}
    /\ afterExpiry = {}
    /\ firstAlert = [k \in WatchKeys |-> "none"]
    /\ detected = NotDetected

WatchOff ==
    /\ config = DefaultConfig
    /\ watchNow = 0
    /\ pendingTokens = <<>>
    /\ createAlertedTokens = <<>>
    /\ pass = NoPass
    /\ detections = 0
    /\ lastAdd = NoAdd
    /\ removed = {}
    /\ readded = {}
    /\ liquidityAlerts = <<>>
    /\ hit = <<>>
    /\ expired = {}
    /\ afterExpiry = {}
    /\ firstAlert = <<>>
    /\ detected = NotDetected

\* The entries of the watchlist for a token address, whatever its spelling.
EntriesOf(pending, address) ==
    {i \in 1..Len(pending) :
        ToLowerCase(pending[i].token.address) = ToLowerCase(address)}

\* The pass branch of handleClankerEvent, handleZoraEvent, handleZoraVipEvent
\* and scheduleSlowValidation for a token whose validation passed: the
\* create alert, and for a creator below the big-account bar the watchlist.
Detect(token) ==
    /\ detections < MaxDetections
    /\ EvaluateCreator(token.launchedBy, gateEnabled).passes
    /\ LET tokenKey == ToLowerCase(token.address)
           creatorInfo == CreatorInfoOf(token.launchedBy)
           big == TwitterBigAccount(creatorInfo)
           alert == IF config.alertOnCreate
                    THEN SendCreateAlert(createAlertedTokens, token, watchNow)
                    ELSE [alerted |-> createAlertedTokens, sent |-> FALSE]
           adds == ~big /\ ShouldWatchLiquidity(config)
           watched == EntriesOf(pendingTokens, token.address) # {}
       IN  /\ createAlertedTokens' = alert.alerted
           /\ pendingTokens' =
                 IF adds
                 THEN AddToWatchlist(pendingTokens, token, creatorInfo,
                                     watchNow)
                 ELSE pendingTokens
           /\ lastAdd' = IF adds THEN [key |-> tokenKey, watched |-> watched]
                         ELSE NoAdd
           /\ firstAlert' =
                 IF alert.sent /\ firstAlert[tokenKey] = "none"
                 THEN [firstAlert EXCEPT ![tokenKey] = "create"]
                 ELSE firstAlert
           /\ readded' = IF adds /\ ~watched /\ tokenKey \in removed
                         THEN readded \cup {tokenKey} ELSE readded
           /\ liquidityAlerts' =
                 IF adds /\ ~watched
                 THEN [liquidityAlerts EXCEPT ![tokenKey] = 0]
                 ELSE liquidityAlerts
           /\ hit' = IF adds /\ ~watched THEN [hit EXCEPT ![tokenKey] = Null]
                     ELSE hit
           /\ expired' = IF adds /\ ~watched THEN expired \ {tokenKey}
                         ELSE expired
           /\ detected' = [key |-> tokenKey, big |-> big,
                           alerted |-> \/ alert.sent
                                       \/ firstAlert[tokenKey] = "create",
                           sent |-> alert.sent]
    /\ detections' = detections + 1
    /\ UNCHANGED <<config, watchNow, pass, removed, afterExpiry>>

\* The interval of startWatchlistLoop fires and checkWatchlistLiquidity
\* runs up to its first await: too old entries go to toRemove, due ones
\* are marked checked; with nothing to check the pass ends at once.
PollStart ==
    /\ Len(pendingTokens) > 0
    /\ ~pass.active
    /\ LET old == ExpiredKeys(pendingTokens, watchNow)
           due == DueKeys(pendingTokens, watchNow)
       IN  /\ pendingTokens' =
                 IF due = {} THEN RemoveAll(pendingTokens, old)
                 ELSE MarkChecked(pendingTokens, due, watchNow)
           /\ pass' = IF due = {} THEN NoPass
                      ELSE [active |-> TRUE, now |-> watchNow,
                            toRemove |-> old, toCheck |-> due]
           /\ removed' = IF due = {} THEN removed \cup old ELSE removed
           /\ expired' =
                 {e.key : e \in {x \in Range(pendingTokens') :
                       watchNow - x.addedAt > WatchlistMaxAge}}
           /\ afterExpiry' =
                 afterExpiry \cup
                 {k \in due : \E x \in Range(pendingTokens) :
                       x.key = k /\ watchNow - x.addedAt > WatchlistMaxAge}
    /\ UNCHANGED <<config, watchNow, createAlertedTokens, detections, lastAdd,
                   readded, liquidityAlerts, hit, firstAlert, detected>>

\* One task of the pass: the liquidity of a due entry is fetched; at the
\* threshold the liquidity alert is sent if shouldSendLiquidity, and the
\* entry goes to toRemove.
PollCheck(tokenKey, res) ==
    /\ pass.active
    /\ tokenKey \in pass.toCheck
    /\ LET met == LiquidityMet(res)
           s == IF met
                THEN ShouldSendLiquidity(config, createAlertedTokens,
                                         tokenKey, watchNow)
                ELSE [alerted |-> createAlertedTokens, send |-> FALSE]
       IN  /\ createAlertedTokens' = s.alerted
           /\ pass' = [pass EXCEPT
                         !.toCheck = @ \ {tokenKey},
                         !.toRemove = IF met THEN @ \cup {tokenKey} ELSE @]
           /\ liquidityAlerts' =
                 IF s.send THEN [liquidityAlerts EXCEPT ![tokenKey] = @ + 1]
                 ELSE liquidityAlerts
           /\ hit' = IF met /\ hit[tokenKey] = Null
                     THEN [hit EXCEPT ![tokenKey] = res.liquidity] ELSE hit
           /\ firstAlert' =
                 IF s.send /\ firstAlert[tokenKey] = "none"
                 THEN [firstAlert EXCEPT ![tokenKey] = "liquidity"]
                 ELSE firstAlert
           /\ afterExpiry' = IF s.send /\ tokenKey \in expired
                             THEN afterExpiry \cup {tokenKey}
                             ELSE afterExpiry
    /\ UNCHANGED <<config, watchNow, pendingTokens, detections, lastAdd,
                   removed, readded, expired, detected>>

\* The end of the pass: the entries of toRemove are deleted.
PollEnd ==
    /\ pass.active
    /\ pass.toCheck = {}
    /\ pendingTokens' = RemoveAll(pendingTokens, pass.toRemove)
    /\ removed' = removed \cup pass.toRemove
    /\ pass' = NoPass
    /\ expired' = expired \cap MapKeys(pendingTokens')
    /\ UNCHANGED <<config, watchNow, createAlertedTokens, detections, lastAdd,
                   readded, liquidityAlerts, hit, afterExpiry, firstAlert,
                   detected>>

MaxWatchNow == CheckInterval + WatchlistMaxAge + 1

WatchNowAdvances ==
    /\ watchNow < MaxWatchNow
    /\ watchNow' = watchNow + 1
    /\ UNCHANGED <<config, pendingTokens, createAlertedTokens, pass,
                   detections, lastAdd, removed, readded, liquidityAlerts,
                   hit, expired, afterExpiry, firstAlert, detected>>

-----------------------------------------------------------------------------
(* Subscriptions, the resubscribe procedure and the health check           *)
(* (sniper.ts, main).                                                      *)

\* MAX_CONSECUTIVE_ERRORS
MAX_CONSECUTIVE_ERRORS == 5

\* Transport errors are counted up to one beyond the threshold.
MaxErrors == MAX_CONSECUTIVE_ERRORS + 1

\* SNIPER_RESUBSCRIBE_COOLDOWN_MS, SNIPER_EVENT_STALE_THRESHOLD_MS,
\* SNIPER_STALE_PROBE_INTERVAL_MS and SNIPER_STALE_PROBE_BLOCKS, scaled to
\* the clock and the block numbers of the model.
ResubscribeCooldown == 2

StaleThreshold == 1

StaleProbeInterval == 1

StaleProbeBlocks == 1

\* The chain head moves up to this block.
MaxHead == 2

\* Time runs until a second resubscribe can start after the cooldown.
MaxSubNow == 2 * ResubscribeCooldown + 1

\* The three subscriptions; the two whose transport errors are counted.
Watchers == {"clanker", "zora", "vip"}

\* (mutant) the errors of the VIP watcher are counted too.
CountsErrorsAll(w) == w \in Watchers

\* The onError callbacks: those of subscribeClanker and subscribeZora count
\* the error, that of subscribeVIP only logs it.
CountsErrors(w) == w \in {"clanker", "zora"}

NoErrors == [transport |-> 0, vip |-> 0, handler |-> 0]

NoRequest == [reason |-> "none", outcome |-> "none", counted |-> 0]

NoHealth == [advanced |-> FALSE, stale |-> FALSE, probed |-> FALSE,
             found |-> 0, missed |-> 0, requested |-> FALSE]

\* main: Date.now() is far beyond the cooldown when the process starts, the
\* subscriptions are created, lastEventAt is the time of the start; the
\* chain is at its first block, which holds a log of a factory.
SubInit ==
    /\ subNow = ResubscribeCooldown
    /\ head = 1
    /\ factoryLogs = {1}
    /\ delivered = {}
    /\ lastEventAt = ResubscribeCooldown
    /\ consecutiveErrors = 0
    /\ isResubscribing = FALSE
    /\ lastResubscribeAt = 0
    /\ resubscribing = "idle"
    /\ unwatch = [w \in Watchers |-> 1]
    /\ lastHealthCheckBlock = 0
    /\ lastStaleProbeAt = 0
    /\ sinceBatch = NoErrors
    /\ request = NoRequest
    /\ health = NoHealth

SubOff ==
    /\ subNow = 0
    /\ head = 0
    /\ factoryLogs = {}
    /\ delivered = {}
    /\ lastEventAt = 0
    /\ consecutiveErrors = 0
    /\ isResubscribing = FALSE
    /\ lastResubscribeAt = 0
    /\ resubscribing = "off"
    /\ unwatch = <<>>
    /\ lastHealthCheckBlock = 0
    /\ lastStaleProbeAt = 0
    /\ sinceBatch = NoErrors
    /\ request = NoRequest
    /\ health = NoHealth

\* (mutant) no cooldown between two executions.
InCooldownNever(t, last) == FALSE

\* resubscribeAll: the request falls into the cooldown.
InCooldown(t, last) ==
    ResubscribeCooldown > 0 /\ t - last < ResubscribeCooldown

\* resubscribeAll up to its first await: nothing happens while a resubscribe
\* is in progress or during the cooldown; else the start time and the flag
\* are set. `counted` is the history of the request.
ResubscribeAll(reason, counted) ==
    IF isResubscribing
    THEN /\ request' = [reason |-> reason, outcome |-> "in_progress",
                        counted |-> counted]
         /\ UNCHANGED <<isResubscribing, lastResubscribeAt, resubscribing>>
    ELSE IF InCooldown(subNow, lastResubscribeAt)
    THEN /\ request' = [reason |-> reason, outcome |-> "cooldown",
                        counted |-> counted]
         /\ UNCHANGED <<isResubscribing, lastResubscribeAt, resubscribing>>
    ELSE /\ request' = [reason |-> reason, outcome |-> "started",
                        counted |-> counted]
         /\ lastResubscribeAt' = subNow
         /\ isResubscribing' = TRUE
         /\ resubscribing' = "notified"

\* resubscribeAll after the first message: the three unwatch functions are
\* called; the pause begins.
UnsubscribeAll ==
    /\ resubscribing = "notified"
    /\ unwatch' = [w \in Watchers |-> 0]
    /\ resubscribing' = "paused"
    /\ UNCHANGED <<subNow, head, factoryLogs, delivered, lastEventAt,
                   consecutiveErrors, isResubscribing, lastResubscribeAt,
                   lastHealthCheckBlock, lastStaleProbeAt, sinceBatch,
                   request, health>>

\* resubscribeAll after the pause: the three subscriptions are created
\* again and the error counter is reset.
SubscribeAll ==
    /\ resubscribing = "paused"
    /\ unwatch' = [w \in Watchers |-> 1]
    /\ consecutiveErrors' = 0
    /\ resubscribing' = "subscribed"
    /\ UNCHANGED <<subNow, head, factoryLogs, delivered, lastEventAt,
                   isResubscribing, lastResubscribeAt,
                   lastHealthCheckBlock, lastStaleProbeAt, sinceBatch,
                   request, health>>

\* resubscribeAll after the last message: the flag is cleared.
ResubscribeDone ==
    /\ resubscribing = "subscribed"
    /\ isResubscribing' = FALSE
    /\ resubscribing' = "idle"
    /\ UNCHANGED <<subNow, head, factoryLogs, delivered, lastEventAt,
                   consecutiveErrors, lastResubscribeAt, unwatch,
                   lastHealthCheckBlock, lastStaleProbeAt, sinceBatch,
                   request, health>>

\* onLogs of a subscription with a batch holding the log of block b: the
\* error counter is reset and the time of the last event is set.
OnBatch(w, b) ==
    /\ unwatch[w] = 1
    /\ b \in factoryLogs
    /\ consecutiveErrors' = 0
    /\ lastEventAt' = subNow
    /\ delivered' = delivered \cup {b}
    /\ sinceBatch' = NoErrors
    /\ UNCHANGED <<subNow, head, factoryLogs, isResubscribing,
                   lastResubscribeAt, resubscribing, unwatch,
                   lastHealthCheckBlock, lastStaleProbeAt, request, health>>

\* onError of the subscription w.
WatchError(w) ==
    /\ IF w = "vip" THEN sinceBatch.vip = 0
       ELSE sinceBatch.transport < MaxErrors
    /\ sinceBatch' = IF w = "vip" THEN [sinceBatch EXCEPT !.vip = 1]
                     ELSE [sinceBatch EXCEPT !.transport = @ + 1]
    /\ IF CountsErrors(w)
       THEN /\ consecutiveErrors' = consecutiveErrors + 1
            /\ IF consecutiveErrors' >= MAX_CONSECUTIVE_ERRORS
               THEN ResubscribeAll("watch error", sinceBatch'.transport)
               ELSE UNCHANGED <<isResubscribing, lastResubscribeAt,
                                resubscribing, request>>
       ELSE UNCHANGED <<consecutiveErrors, isResubscribing,
                        lastResubscribeAt, resubscribing, request>>
    /\ UNCHANGED <<subNow, head, factoryLogs, delivered, lastEventAt,
                   unwatch, lastHealthCheckBlock, lastStaleProbeAt, health>>

\* The catch block around a handler that threw: the counter is not touched.
HandlerError ==
    /\ sinceBatch.handler = 0
    /\ sinceBatch' = [sinceBatch EXCEPT !.handler = 1]
    /\ UNCHANGED <<subNow, head, factoryLogs, delivered, lastEventAt,
                   consecutiveErrors, isResubscribing, lastResubscribeAt,
                   resubscribing, unwatch, lastHealthCheckBlock,
                   lastStaleProbeAt, request, health>>

\* probeRecentFactoryLogs(toBlock): the number of factory logs the node
\* returns for the last SNIPER_STALE_PROBE_BLOCKS blocks.
ProbeRecentFactoryLogs(toBlock) ==
    IF StaleProbeBlocks <= 0 THEN {}
    ELSE LET fromBlock == IF toBlock > StaleProbeBlocks
                          THEN toBlock - StaleProbeBlocks ELSE 0
         IN  IF fromBlock >= toBlock THEN {}
             ELSE {b \in factoryLogs : fromBlock <= b /\ b <= toBlock}

\* A tick of the health check interval.
HealthCheck ==
    LET currentBlock == head
        blockProgress == currentBlock - lastHealthCheckBlock
        timeSinceLastEvent == subNow - lastEventAt
        stale == timeSinceLastEvent > StaleThreshold
        probes == /\ stale
                  /\ blockProgress # 0
                  /\ \/ StaleProbeInterval = 0
                     \/ subNow - lastStaleProbeAt >= StaleProbeInterval
        logs == IF probes THEN ProbeRecentFactoryLogs(currentBlock) ELSE {}
        found == Cardinality(logs)
    IN  /\ lastHealthCheckBlock' = currentBlock
        /\ lastStaleProbeAt' = IF probes THEN subNow ELSE lastStaleProbeAt
        /\ IF probes /\ found > 0
           THEN ResubscribeAll("stale subscription", 0)
           ELSE UNCHANGED <<isResubscribing, lastResubscribeAt,
                            resubscribing, request>>
        /\ health' = [advanced |-> currentBlock > lastHealthCheckBlock,
                      stale |-> stale,
                      probed |-> probes,
                      found |-> found,
                      missed |-> Cardinality(logs \ delivered),
                      requested |-> probes /\ found > 0]
        /\ UNCHANGED <<subNow, head, factoryLogs, delivered, lastEventAt,
                       consecutiveErrors, unwatch, sinceBatch>>

\* The chain: a new block, with or without a log of a factory.
NewBlock(withLog) ==
    /\ head < MaxHead
    /\ head' = head + 1
    /\ factoryLogs' = IF withLog THEN factoryLogs \cup {head + 1}
                      ELSE factoryLogs
    /\ UNCHANGED <<subNow, delivered, lastEventAt, consecutiveErrors,
                   isResubscribing, lastResubscribeAt, resubscribing,
                   unwatch, lastHealthCheckBlock, lastStaleProbeAt,
                   sinceBatch, request, health>>

SubNowAdvances ==
    /\ subNow < MaxSubNow
    /\ subNow' = subNow + 1
    /\ UNCHANGED <<head, factoryLogs, delivered, lastEventAt,
                   consecutiveErrors, isResubscribing, lastResubscribeAt,
                   resubscribing, unwatch, lastHealthCheckBlock,
                   lastStaleProbeAt, sinceBatch, request, health>>

-----------------------------------------------------------------------------
(* The Farcaster lookup by address and the timeout of the fast path        *)
(* (sniper.ts): getNeynarUserByAddress, validateTokenFast.                 *)

\* SNIPER_FAST_TIMEOUT_MS
SNIPER_FAST_TIMEOUT_MS == 2500

\* Tokens by address, with the creator address as the event carries it: two
\* tokens of one creator in two spellings of the address, and a third.
LookupCreator ==
    [t \in {"0xt1", "0xt2", "0xc1"} |->
        IF t = "0xt1" THEN "0xCF" ELSE IF t = "0xt2" THEN "0xcf" ELSE "0xb"]

LookupTokens == DOMAIN LookupCreator

LookupAddresses == {ToLowerCase(LookupCreator[t]) : t \in LookupTokens}

\* What the lookup task can end with: a Farcaster user, HTTP 404, or another
\* HTTP status or an error.
LookupOutcomes == {"user", "404", "failed"}

NoLookup == [address |-> NoString, outcome |-> "none"]

LookupInit ==
    /\ enableSlowFallback \in BOOLEAN
    /\ neynarUserByAddressCache = [a \in LookupAddresses |-> "none"]
    /\ neynarUserByAddressInFlight = {}
    /\ fastPath = [t \in LookupTokens |-> "idle"]
    /\ scheduled = {}
    /\ timedOut = {}
    /\ lastLookup = NoLookup

LookupOff ==
    /\ enableSlowFallback = FALSE
    /\ neynarUserByAddressCache = <<>>
    /\ neynarUserByAddressInFlight = {}
    /\ fastPath = <<>>
    /\ scheduled = {}
    /\ timedOut = {}
    /\ lastLookup = NoLookup

\* scheduleSlowValidation for the tokens whose fast path found no creator:
\* nothing with SNIPER_ENABLE_SLOW_FALLBACK off.
ScheduleSlowValidation(tokens) ==
    IF enableSlowFallback THEN scheduled \cup tokens ELSE scheduled

\* validateTokenFast on what getNeynarUserByAddress resolved to.
FastResult(neynarData) ==
    IF neynarData = "user" THEN "found" ELSE "creator_not_found_fast"

\* validateTokenFast calls getNeynarUserByAddress(addr, "fast"): a cached
\* value, user or null, is returned at once; else the call waits for the
\* task in flight, starting it when there is none, in a race with the timer.
ValidateTokenFastCalls(t) ==
    /\ fastPath[t] = "idle"
    /\ LET addressLower == ToLowerCase(LookupCreator[t])
           cached == neynarUserByAddressCache[addressLower]
       IN  IF cached # "none"
           THEN /\ fastPath' = [fastPath EXCEPT ![t] = FastResult(cached)]
                /\ scheduled' = IF cached = "user" THEN scheduled
                                ELSE ScheduleSlowValidation({t})
                /\ UNCHANGED neynarUserByAddressInFlight
           ELSE /\ fastPath' = [fastPath EXCEPT ![t] = "racing"]
                /\ neynarUserByAddressInFlight' =
                       neynarUserByAddressInFlight \cup {addressLower}
                /\ UNCHANGED scheduled
    /\ UNCHANGED <<enableSlowFallback, neynarUserByAddressCache, timedOut,
                   lastLookup>>

\* The timer of the race fires first: the call resolves to null, the fast
\* path fails and the handler schedules the slow validation.
FastTimeout(t) ==
    /\ SNIPER_FAST_TIMEOUT_MS > 0
    /\ fastPath[t] = "racing"
    /\ fastPath' = [fastPath EXCEPT ![t] = FastResult("null")]
    /\ scheduled' = ScheduleSlowValidation({t})
    /\ timedOut' = timedOut \cup {t}
    /\ UNCHANGED <<enableSlowFallback, neynarUserByAddressCache,
                   neynarUserByAddressInFlight, lastLookup>>

\* (mutant) the task caches nothing.
StoreLookupNever(stored, addressLower, outcome) == stored

\* The task of getNeynarUserByAddress stores a user, and null for a 404.
StoreLookup(stored, addressLower, outcome) ==
    IF outcome = "user" THEN [stored EXCEPT ![addressLower] = "user"]
    ELSE IF outcome = "404" THEN [stored EXCEPT ![addressLower] = "null"]
    ELSE stored

\* The task of an address settles: its result is stored, its in-flight
\* entry is deleted, and the fast paths still racing on it get the result.
LookupSettles(addressLower, outcome) ==
    /\ addressLower \in neynarUserByAddressInFlight
    /\ neynarUserByAddressCache' =
           StoreLookup(neynarUserByAddressCache, addressLower, outcome)
    /\ neynarUserByAddressInFlight' =
           neynarUserByAddressInFlight \ {addressLower}
    /\ LET racing == {t \in LookupTokens :
                         /\ fastPath[t] = "racing"
                         /\ ToLowerCase(LookupCreator[t]) = addressLower}
           neynarData == IF outcome = "user" THEN "user" ELSE "null"
       IN  /\ fastPath' = [t \in LookupTokens |->
                              IF t \in racing THEN FastResult(neynarData)
                              ELSE fastPath[t]]
           /\ scheduled' = IF outcome = "user" THEN scheduled
                           ELSE ScheduleSlowValidation(racing)
    /\ lastLookup' = [address |-> addressLower, outcome |-> outcome]
    /\ UNCHANGED <<enableSlowFallback, timedOut>>

-----------------------------------------------------------------------------
(* The memoized creator lookups (sniper.ts): getNeynarUserByAddress,       *)
(* getNeynarUserByUsername, getTwitterFollowers, and the lookup by FID,    *)
(* getNeynarScore. The lookups share no state: a behaviour follows one of  *)
(* them. The race of the fast mode with its timer is in the section above. *)

\* The size of the three result caches.
LookupCacheSize == 20000

\* SNIPER_NEYNAR_ADDRESS_CACHE_TTL_MS / SNIPER_TWITTER_FOLLOWERS_CACHE_TTL_MS
\* and SNIPER_NEYNAR_NOT_FOUND_CACHE_TTL_MS /
\* SNIPER_TWITTER_NOT_FOUND_CACHE_TTL_MS, scaled to the clock of the model.
MemoTtl == 2

NotFoundTtl == 1

\* Callers that wait for one task, and requests of one FID, at a time.
MaxSharers == 2

\* Time runs until every entry has expired.
MaxMemoNow == MemoTtl + 2

LookupKinds == {"address", "username", "twitter", "fid"}

\* The lookups with a result cache and an in-flight map.
Memoized == {"address", "username", "twitter"}

\* The arguments of the calls: two spellings of one key, and for the
\* lookup by address another key.
RawKeys(kind) ==
    IF kind = "address" THEN {"0xCF", "0xcf", "0xb"}
    ELSE IF kind = "fid" THEN {"7"}
    ELSE {"@Bob ", "bob"}

\* `handle.replace(/^@/, "").trim().toLowerCase()` on the handles of the
\* model.
NormalizeHandle(str) == IF str = "@Bob " THEN "bob" ELSE str

\* The key of a lookup: address.toLowerCase(), the normalized handle or
\* user name, the FID itself.
LookupKey(kind, raw) ==
    IF kind = "address" THEN ToLowerCase(raw)
    ELSE IF kind = "fid" THEN raw
    ELSE NormalizeHandle(raw)

MemoKeys == {LookupKey(memoKind, raw) : raw \in RawKeys(memoKind)}

\* What the API answers: a user (one of two records), HTTP 404, another
\* non-2xx status, a 2xx body without a user, a body that does not parse,
\* or no answer (fetch throws).
MemoResults == {"r1", "r2"}

MemoFailures == {"http_error", "no_user", "malformed", "network_error"}

MemoOutcomes == {"user", "404"} \cup MemoFailures

NoCall == [key |-> NoString, requested |-> FALSE, value |-> Undefined,
           fresh |-> FALSE, previous |-> Undefined]

NoSettle == [key |-> NoString, outcome |-> "none", value |-> Undefined,
             served |-> 0]

NoSuccess == [at |-> Null, value |-> Undefined]

MemoInit ==
    /\ memoKind \in LookupKinds
    /\ memoNow = 0
    /\ memoCache = <<>>
    /\ memoInFlight = {}
    /\ outstanding = [k \in MemoKeys |-> 0]
    /\ awaiting = [k \in MemoKeys |-> 0]
    /\ succeeded = [k \in MemoKeys |-> NoSuccess]
    /\ lastCall = NoCall
    /\ lastSettle = NoSettle

MemoOff ==
    /\ memoKind = "off"
    /\ memoNow = 0
    /\ memoCache = <<>>
    /\ memoInFlight = {}
    /\ outstanding = <<>>
    /\ awaiting = <<>>
    /\ succeeded = <<>>
    /\ lastCall = NoCall
    /\ lastSettle = NoSettle

\* (mutant) the in-flight map is not consulted.
InFlightHitNever(inFlight, k) == FALSE

\* `const inFlight = xInFlight.get(key); if (inFlight) return inFlight`
InFlightHit(inFlight, k) == k \in inFlight

\* A lookup is called with `raw`. With a live cache entry the cached value
\* is returned; else the caller joins the task in flight for the key; else
\* the task is started (one request) and entered into the in-flight map.
\* getNeynarScore has neither cache nor map: every call is a request.
MemoLookup(raw) ==
    LET k == LookupKey(memoKind, raw)
        got == LruGet(memoCache, k, memoNow)
        fresh == /\ succeeded[k].at # Null
                 /\ memoNow <= succeeded[k].at + MemoTtl
        call(requested, value) ==
            [key |-> k, requested |-> requested, value |-> value,
             fresh |-> fresh, previous |-> succeeded[k].value]
    IN  /\ raw \in RawKeys(memoKind)
        /\ awaiting[k] < MaxSharers
        /\ IF memoKind \notin Memoized
           THEN /\ outstanding' = [outstanding EXCEPT ![k] = @ + 1]
                /\ awaiting' = [awaiting EXCEPT ![k] = @ + 1]
                /\ lastCall' = call(TRUE, "pending")
                /\ UNCHANGED <<memoCache, memoInFlight>>
           ELSE IF got.value # Undefined
           THEN /\ memoCache' = got.cache
                /\ lastCall' = call(FALSE, got.value)
                /\ UNCHANGED <<memoInFlight, outstanding, awaiting>>
           ELSE IF InFlightHit(memoInFlight, k)
           THEN /\ memoCache' = got.cache
                /\ awaiting' = [awaiting EXCEPT ![k] = @ + 1]
                /\ lastCall' = call(FALSE, "pending")
                /\ UNCHANGED <<memoInFlight, outstanding>>
           ELSE /\ memoCache' = got.cache
                /\ memoInFlight' = memoInFlight \cup {k}
                /\ outstanding' = [outstanding EXCEPT ![k] = @ + 1]
                /\ awaiting' = [awaiting EXCEPT ![k] = @ + 1]
                /\ lastCall' = call(TRUE, "pending")
        /\ UNCHANGED <<memoKind, memoNow, succeeded, lastSettle>>

\* (mutant) a failed lookup is stored as absent.
MemoStoreFailureAsAbsent(c, k, outcome, result, t) ==
    IF outcome = "user"
    THEN LruSet(c, k, result, NoTtl, t, LookupCacheSize, MemoTtl)
    ELSE LruSet(c, k, "null", NotFoundTtl, t, LookupCacheSize, MemoTtl)

\* What the task of a lookup writes to the result cache: the user it
\* resolved, with the TTL of the cache; null for a 404, with the not-found
\* TTL; nothing else.
MemoStore(c, k, outcome, result, t) ==
    IF outcome = "user"
    THEN LruSet(c, k, result, NoTtl, t, LookupCacheSize, MemoTtl)
    ELSE IF outcome = "404"
    THEN LruSet(c, k, "null", NotFoundTtl, t, LookupCacheSize, MemoTtl)
    ELSE c

\* The value a task resolves to.
MemoValue(outcome, result) == IF outcome = "user" THEN result ELSE "null"

\* The request of a task for k is answered and the task ends: the result
\* is stored, `finally` deletes the in-flight entry, the callers waiting on
\* the task get its value. getNeynarScore only returns the value.
MemoSettles(k, outcome, result) ==
    /\ outstanding[k] > 0
    /\ outstanding' = [outstanding EXCEPT ![k] = @ - 1]
    /\ IF memoKind \in Memoized
       THEN /\ memoCache' = MemoStore(memoCache, k, outcome, result, memoNow)
            /\ memoInFlight' = memoInFlight \ {k}
            /\ awaiting' = [awaiting EXCEPT ![k] = 0]
            /\ lastSettle' = [key |-> k, outcome |-> outcome,
                              value |-> MemoValue(outcome, result),
                              served |-> awaiting[k]]
       ELSE /\ awaiting' = [awaiting EXCEPT ![k] = @ - 1]
            /\ lastSettle' = [key |-> k, outcome |-> outcome,
                              value |-> MemoValue(outcome, result),
                              served |-> 1]
            /\ UNCHANGED <<memoCache, memoInFlight>>
    /\ succeeded' = IF outcome = "user"
                    THEN [succeeded EXCEPT
                              ![k] = [at |-> memoNow, value |-> result]]
                    ELSE succeeded
    /\ UNCHANGED <<memoKind, memoNow, lastCall>>

MemoNowAdvances ==
    /\ memoNow < MaxMemoNow
    /\ memoNow' = memoNow + 1
    /\ UNCHANGED <<memoKind, memoCache, memoInFlight, outstanding, awaiting,
                   succeeded, lastCall, lastSettle>>

-----------------------------------------------------------------------------
(* The waits of the slow path for a Zora token (sniper.ts): fetchZoraCoin, *)
(* getZoraCreator, validateToken and the loop of validateTokenWithRetry.   *)

\* `const delays = [1000, 2000, 4000, 8000, 16000]`
SlowDelays == <<1000, 2000, 4000, 8000, 16000>>

\* `Math.min(baseDelay * 2, 30000)`
SlowDelayCap == 30000

\* `maxRetries: 2` of the guardedFetch call of fetchZoraCoin
ZoraFetchRetries == 2

\* What one base URL of the Zora API answers, every time it is asked: a
\* status, or nothing (fetch throws a TypeError).
ZoraAnswers == Statuses \cup {Null}

\* [ZORA_API_BASE, ZORA_API_BASE_FALLBACK].filter(Boolean): one base or two,
\* each with its answer.
ZoraBaseAnswers ==
    {<<a>> : a \in ZoraAnswers} \cup {<<a, b>> : a \in ZoraAnswers, b \in ZoraAnswers}

Chars(n) == IF n < 10 THEN <<DigitChar(n)>> ELSE <<DigitChar(n \div 10), DigitChar(n % 10)>>

\* The message of the RetryError of withRetry:
\* `Failed after ${attempt + 1} attempts: ${error.message}`
RetryErrorMessage(attempts, error) ==
    <<"F", "a", "i", "l", "e", "d", " ", "a", "f", "t", "e", "r", " ">>
    \o Chars(attempts)
    \o <<" ", "a", "t", "t", "e", "m", "p", "t", "s", ":", " ">>
    \o error.message

\* guardedFetch with shouldRetryHttp against a base that answers `answer`
\* every time: the response, or the RetryError thrown after the attempts
\* withRetry makes.
GuardedFetchZora(answer) ==
    LET error == IF answer = Null THEN TypeError ELSE HttpError(answer)
        attempts == IF ShouldRetryHttp(error) THEN ZoraFetchRetries + 1
                    ELSE 1
    IN  IF answer # Null /\ ~IsErrorStatus(answer)
        THEN [thrown |-> FALSE, status |-> answer, message |-> <<>>]
        ELSE [thrown |-> TRUE, status |-> Null,
              message |-> RetryErrorMessage(attempts, error)]

\* The text occurs in the message.
Contains(msg, text) ==
    \E i \in 0..(Len(msg) - Len(text)) :
        \A j \in 1..Len(text) : msg[i + j] = text[j]

\* /\\bHTTP 503\\b/.test(message): in the regular-expression literal `\\`
\* is an escaped backslash, so the pattern asks for the characters `\b`
\* before and after `HTTP 503`, literally.
Got503(message) ==
    Contains(message, <<"\\", "b", "H", "T", "T", "P", " ", "5", "0", "3",
                        "\\", "b">>)

\* The loop of fetchZoraCoin over the bases from the i-th on.
RECURSIVE FetchZoraLoop(_, _, _, _, _)
FetchZoraLoop(answers, i, lastErrorSet, got404Count, got503) ==
    IF i > Len(answers)
    THEN IF got404Count = Len(answers) THEN [status |-> "not_found", is503 |-> FALSE]
         ELSE IF lastErrorSet THEN [status |-> "api_error", is503 |-> got503]
         ELSE [status |-> "not_found", is503 |-> FALSE]
    ELSE LET res == GuardedFetchZora(answers[i]) IN
         IF res.thrown
         THEN FetchZoraLoop(answers, i + 1, TRUE, got404Count,
                            got503 \/ Got503(res.message))
         ELSE IF res.status = 404
         THEN FetchZoraLoop(answers, i + 1, lastErrorSet, got404Count + 1,
                            got503)
         ELSE IF res.status < 200 \/ res.status > 299
         THEN FetchZoraLoop(answers, i + 1, TRUE, got404Count, got503)
         ELSE [status |-> "success", is503 |-> FALSE]

\* fetchZoraCoin
FetchZoraCoin(answers) == FetchZoraLoop(answers, 1, FALSE, 0, FALSE)

\* getZoraCreator: the status of its result; `profile` says whether the
\* coin the API returned has a creator profile.
GetZoraCreator(answers, profile) ==
    LET result == FetchZoraCoin(answers) IN
    IF result.status = "not_found" THEN "not_found"
    ELSE IF result.status = "api_error"
    THEN IF result.is503 THEN "api_error_503" ELSE "api_error"
    ELSE IF ~profile THEN "not_found"
    ELSE "success"

\* validateToken for a Zora token: the reason it fails with when the
\* creator is not found, or "found".
SlowReason(zoraStatus, walletFound) ==
    IF zoraStatus = "success" \/ walletFound THEN "found"
    ELSE IF zoraStatus = "api_error_503" THEN "api_error_503"
    ELSE "creator_not_found"

\* `delays[attempt] ?? delays[delays.length - 1] ?? 16000`
BaseDelay(tries) ==
    IF tries + 1 <= Len(SlowDelays) THEN SlowDelays[tries + 1]
    ELSE SlowDelays[Len(SlowDelays)]

\* `is503 ? Math.min(baseDelay * 2, 30000) : baseDelay`
SlowDelay(tries, is503) ==
    IF is503 THEN Min(BaseDelay(tries) * 2, SlowDelayCap)
    ELSE BaseDelay(tries)

NoAttempt == [answers |-> <<>>, walletFound |-> FALSE, reason |-> "none",
              waited |-> Null, tries |-> Null]

SlowInit ==
    /\ slowTry = 0
    /\ slowWaits = <<>>
    /\ slowLast = NoAttempt

SlowOff ==
    /\ slowTry = Null
    /\ slowWaits = <<>>
    /\ slowLast = NoAttempt

\* One turn of the loop of validateTokenWithRetry(token, 3) for a Zora
\* token: validateToken is called; a result other than creator_not_found
\* and api_error_503 is returned, else the loop waits when retries are left.
SlowAttempt(answers, profile, walletFound) ==
    /\ slowTry # Null
    /\ LoopContinues(slowTry, SlowMaxRetries)
    /\ slowLast.reason # "found"
    /\ LET reason == SlowReason(GetZoraCreator(answers, profile), walletFound)
           is503 == reason = "api_error_503"
           waits == reason # "found" /\ slowTry < SlowMaxRetries
           wait == IF waits THEN SlowDelay(slowTry, is503) ELSE Null
       IN  /\ slowLast' = [answers |-> answers, walletFound |-> walletFound,
                           reason |-> reason, waited |-> wait,
                           tries |-> slowTry]
           /\ slowWaits' = IF waits THEN Append(slowWaits, wait)
                           ELSE slowWaits
           /\ slowTry' = IF reason = "found" THEN slowTry ELSE slowTry + 1

\* scheduleSlowValidation runs the next task.
SlowRestart ==
    /\ slowTry # Null
    /\ slowLast.reason = "found" \/ ~LoopContinues(slowTry, SlowMaxRetries)
    /\ slowTry' = 0
    /\ slowWaits' = <<>>
    /\ slowLast' = NoAttempt

-----------------------------------------------------------------------------
(* The interval of the watchlist poll (sniper.ts): startWatchlistLoop and  *)
(* the promise of checkWatchlistLiquidity. What a pass does to the         *)
(* watchlist is in the section of the watchlist above.                     *)

\* Passes a behaviour follows.
MaxPasses == 3

\* The largest pendingTokens.size a behaviour follows.
MaxWatchlistSize == 2

\* How the promise of a pass settles.
PassOutcomes == {"completed", "failed"}

LoopInit ==
    /\ watchlistCheckInFlight = FALSE
    /\ passesRunning = 0
    /\ watchlistSize \in 0..MaxWatchlistSize
    /\ lastTick = "none"
    /\ passLog = <<>>

LoopOff ==
    /\ watchlistCheckInFlight = FALSE
    /\ passesRunning = 0
    /\ watchlistSize = 0
    /\ lastTick = "none"
    /\ passLog = <<>>

\* (mutant) the callback without the test of watchlistCheckInFlight.
LoopTickUnguarded ==
    /\ Len(passLog) + passesRunning < MaxPasses
    /\ IF watchlistSize = 0
       THEN /\ lastTick' = "empty"
            /\ UNCHANGED <<watchlistCheckInFlight, passesRunning>>
       ELSE /\ watchlistCheckInFlight' = TRUE
            /\ passesRunning' = passesRunning + 1
            /\ lastTick' = "started"
    /\ UNCHANGED <<watchlistSize, passLog>>

\* The callback of setInterval: it returns on an empty watchlist and while
\* watchlistCheckInFlight is set; else it sets the flag and calls
\* checkWatchlistLiquidity.
LoopTick ==
    /\ Len(passLog) + passesRunning < MaxPasses
    /\ IF watchlistSize = 0
       THEN /\ lastTick' = "empty"
            /\ UNCHANGED <<watchlistCheckInFlight, passesRunning>>
       ELSE IF watchlistCheckInFlight
       THEN /\ lastTick' = "busy"
            /\ UNCHANGED <<watchlistCheckInFlight, passesRunning>>
       ELSE /\ watchlistCheckInFlight' = TRUE
            /\ passesRunning' = passesRunning + 1
            /\ lastTick' = "started"
    /\ UNCHANGED <<watchlistSize, passLog>>

\* The promise of checkWatchlistLiquidity settles: .catch logs a rejection
\* and .finally clears the flag either way.
PassSettles(outcome) ==
    /\ passesRunning > 0
    /\ passesRunning' = passesRunning - 1
    /\ watchlistCheckInFlight' = FALSE
    /\ passLog' = Append(passLog, outcome)
    /\ UNCHANGED <<watchlistSize, lastTick>>

\* The handlers add tokens to the watchlist and the passes remove them.
WatchlistSizeChanges(n) ==
    /\ n # watchlistSize
    /\ n < watchlistSize => passesRunning > 0
    /\ watchlistSize' = n
    /\ UNCHANGED <<watchlistCheckInFlight, passesRunning, lastTick, passLog>>

-----------------------------------------------------------------------------
(* The tasks of the slow path (sniper.ts): scheduleSlowValidation, its     *)
(* in-flight set and the limiter runSlowValidationTask. What a task        *)
(* computes is in the sections of the validation and of the waits above.   *)

\* SNIPER_SLOW_VALIDATION_CONCURRENCY, at least 1.
SlowTaskConcurrency == 1

\* Tasks queued or running a behaviour follows.
MaxSlowTasks == 3

\* The token addresses handed to scheduleSlowValidation: one token in two
\* spellings, and two others.
SlowTaskAddresses == {"0xT1", "0xt1", "0xt2", "0xc1"}

SlowTaskKeys == {ToLowerCase(a) : a \in SlowTaskAddresses}

\* How a task ends: the validation passed, was rejected, or threw.
SlowTaskOutcomes == {"passed", "rejected", "threw"}

NoSchedule == [key |-> NoString, accepted |-> FALSE]

NoEnd == [key |-> NoString, outcome |-> "none"]

TaskInit ==
    /\ slowQueued = <<>>
    /\ slowRunning = [k \in SlowTaskKeys |-> 0]
    /\ lastSchedule = NoSchedule
    /\ lastEnd = NoEnd

TaskOff ==
    /\ slowQueued = <<>>
    /\ slowRunning = <<>>
    /\ lastSchedule = NoSchedule
    /\ lastEnd = NoEnd

\* The tasks holding a slot of the limiter (its activeCount).
SlowActive ==
    Cardinality({<<k, n>> \in SlowTaskKeys \X (1..MaxSlowTasks) :
                    n <= slowRunning[k]})

\* The tasks of a token key, waiting for a slot or running.
TasksOf(k) ==
    slowRunning[k]
    + Cardinality({i \in 1..Len(slowQueued) : slowQueued[i] = k})

TasksTotal == Len(slowQueued) + SlowActive

\* runSlowValidationTask(fn): the task waits in the queue of the limiter
\* when no slot is free, else it starts.
RunSlowValidationTask(tokenKey) ==
    IF SlowActive >= SlowTaskConcurrency
    THEN /\ slowQueued' = Append(slowQueued, tokenKey)
         /\ UNCHANGED slowRunning
    ELSE /\ slowRunning' = [slowRunning EXCEPT ![tokenKey] = @ + 1]
         /\ UNCHANGED slowQueued

\* (mutant) scheduleSlowValidation without the test of the in-flight set.
ScheduleSlowTaskAlways(address) ==
    /\ TasksTotal < MaxSlowTasks
    /\ LET tokenKey == ToLowerCase(address) IN
       IF ~enableSlowFallback
       THEN /\ lastSchedule' = [key |-> tokenKey, accepted |-> FALSE]
            /\ UNCHANGED <<slowValidationInFlight, slowQueued, slowRunning>>
       ELSE /\ slowValidationInFlight' =
                  slowValidationInFlight \cup {tokenKey}
            /\ RunSlowValidationTask(tokenKey)
            /\ lastSchedule' = [key |-> tokenKey, accepted |-> TRUE]
    /\ UNCHANGED lastEnd

\* scheduleSlowValidation(token): nothing with the fallback off or with the
\* token key in flight; else the key is added and the task handed to the
\* limiter.
ScheduleSlowTask(address) ==
    /\ TasksTotal < MaxSlowTasks
    /\ LET tokenKey == ToLowerCase(address) IN
       IF ~enableSlowFallback \/ tokenKey \in slowValidationInFlight
       THEN /\ lastSchedule' = [key |-> tokenKey, accepted |-> FALSE]
            /\ UNCHANGED <<slowValidationInFlight, slowQueued, slowRunning>>
       ELSE /\ slowValidationInFlight' =
                  slowValidationInFlight \cup {tokenKey}
            /\ RunSlowValidationTask(tokenKey)
            /\ lastSchedule' = [key |-> tokenKey, accepted |-> TRUE]
    /\ UNCHANGED lastEnd

\* A running task ends: its finally block deletes the token key whatever
\* the outcome, and the limiter hands the slot to the first task waiting.
SlowTaskEnds(tokenKey, outcome) ==
    /\ slowRunning[tokenKey] > 0
    /\ slowValidationInFlight' = slowValidationInFlight \ {tokenKey}
    /\ IF slowQueued = <<>>
       THEN /\ slowRunning' = [slowRunning EXCEPT ![tokenKey] = @ - 1]
            /\ UNCHANGED slowQueued
       ELSE /\ slowRunning' =
                  [k \in SlowTaskKeys |->
                      slowRunning[k]
                      - (IF k = tokenKey THEN 1 ELSE 0)
                      + (IF k = Head(slowQueued) THEN 1 ELSE 0)]
            /\ slowQueued' = Tail(slowQueued)
    /\ lastEnd' = [key |-> tokenKey, outcome |-> outcome]
    /\ UNCHANGED lastSchedule

-----------------------------------------------------------------------------
(* The watchers of the three log streams (sniper.ts, main): the unwatch    *)
(* handles, resubscribeAll from its unsubscribe block on, and              *)
(* subscribeClanker, subscribeZora, subscribeVIP. When resubscribeAll      *)
(* runs is in the section of the subscriptions above.                      *)

\* Executions of resubscribeAll a behaviour follows.
MaxResubscribes == 3

\* The order of the calls in the two try blocks of resubscribeAll.
StreamOrder == <<"clanker", "zora", "vip">>

PositionOf(w) == CHOOSE i \in 1..Len(StreamOrder) : StreamOrder[i] = w

\* The call that throws in a try block, if any.
Throwers == Watchers \cup {NoString}

\* The calls of a try block that return: those before the one that throws.
Returned(w, thrower) ==
    thrower = NoString \/ PositionOf(w) < PositionOf(thrower)

\* main: the initial subscribeClanker(), subscribeZora(), subscribeVIP();
\* a watcher is named by the execution that created it, 0 for main.
ResubInit ==
    /\ activeWatchers = [w \in Watchers |-> {0}]
    /\ unwatchHandle = [w \in Watchers |-> 0]
    /\ resubStep = "idle"
    /\ resubRuns = 0

ResubOff ==
    /\ activeWatchers = <<>>
    /\ unwatchHandle = <<>>
    /\ resubStep = "off"
    /\ resubRuns = 0

\* resubscribeAll past its two guards, up to the unsubscribe block.
ResubscribeBegins ==
    /\ resubStep = "idle"
    /\ resubRuns < MaxResubscribes
    /\ resubRuns' = resubRuns + 1
    /\ resubStep' = "unsubscribing"
    /\ UNCHANGED <<activeWatchers, unwatchHandle>>

\* The first try block: unwatchClanker(), unwatchZora(), unwatchVIP() in
\* turn; a call that throws ends the block, and its own watcher is stopped
\* or not. The handles are left as they are.
UnwatchAll(thrower, stopped) ==
    /\ resubStep = "unsubscribing"
    /\ activeWatchers' =
          [w \in Watchers |->
              IF Returned(w, thrower) \/ (w = thrower /\ stopped)
              THEN activeWatchers[w] \ {unwatchHandle[w]}
              ELSE activeWatchers[w]]
    /\ resubStep' = "paused"
    /\ UNCHANGED <<unwatchHandle, resubRuns>>

\* The second try block, after the pause: subscribeClanker(),
\* subscribeZora(), subscribeVIP() in turn, each creating a watcher and
\* storing its handle; a call that throws ends the block. Then the flag is
\* cleared.
SubscribeAgain(thrower) ==
    /\ resubStep = "paused"
    /\ activeWatchers' =
          [w \in Watchers |->
              IF Returned(w, thrower)
              THEN activeWatchers[w] \cup {resubRuns}
              ELSE activeWatchers[w]]
    /\ unwatchHandle' =
          [w \in Watchers |->
              IF Returned(w, thrower) THEN resubRuns ELSE unwatchHandle[w]]
    /\ resubStep' = "idle"
    /\ UNCHANGED resubRuns

-----------------------------------------------------------------------------
(* Specifications: one per component.                                      *)

\* What a step of one component leaves alone.
LimFrame ==
    UNCHANGED <<retryVars, lruVars, ingestVars, evalVars,
                valVars, watchVars,
                subVars, lookupVars,
                memoVars,
                slowVars,
                loopVars,
                taskVars,
                resubVars>>

RetryFrame ==
    UNCHANGED <<limVars, lruVars, ingestVars, evalVars,
                valVars, watchVars,
                subVars, lookupVars,
                memoVars,
                slowVars,
                loopVars,
                taskVars,
                resubVars>>

LruFrame ==
    UNCHANGED <<limVars, retryVars, ingestVars, evalVars,
                valVars, watchVars,
                subVars, lookupVars,
                memoVars,
                slowVars,
                loopVars,
                taskVars,
                resubVars>>

IngestFrame ==
    UNCHANGED <<limVars, retryVars, lruVars, evalVars,
                valVars, watchVars,
                subVars, lookupVars,
                memoVars,
                slowVars,
                loopVars,
                taskVars,
                resubVars>>

EvalFrame ==
    UNCHANGED <<limVars, retryVars, lruVars, ingestVars,
                valVars, watchVars,
                subVars, lookupVars,
                memoVars,
                slowVars,
                loopVars,
                taskVars,
                resubVars>>

LimNext ==
    \/ \E c \in Callers : LimiterCall(c) /\ LimFrame
    \/ LimiterResume /\ LimFrame
    \/ \E c \in Callers : LimiterNext(c) /\ LimFrame

InitLimiter ==
    /\ LimInit
    /\ RetryOff
    /\ LruOff
    /\ IngestOff
    /\ EvalOff
    /\ ValOff
    /\ WatchOff
    /\ SubOff
    /\ LookupOff
    /\ MemoOff
    /\ SlowOff
    /\ LoopOff
    /\ TaskOff
    /\ ResubOff

SpecLimiter == InitLimiter /\ [][LimNext]_vars

\* The limiter when every task that started finishes and the job queue of
\* the event loop is run.
\* The callers of the limiter in these behaviours.
LiveCallers == 1..(NumCallers - 1)

LimLiveNext ==
    \/ \E c \in LiveCallers : LimiterCall(c) /\ LimFrame
    \/ LimiterResume /\ LimFrame
    \/ \E c \in LiveCallers : LimiterNext(c) /\ LimFrame

SpecLimiterLive ==
    /\ InitLimiter
    /\ [][LimLiveNext]_vars
    /\ WF_vars(LimiterResume /\ LimFrame)
    /\ \A c \in LiveCallers : WF_vars(LimiterNext(c) /\ LimFrame)

RetryNext ==
    \/ GuardedFetch /\ RetryFrame
    \/ Tick /\ RetryFrame
    \/ \E status \in Statuses : FetchResolves(status) /\ RetryFrame
    \/ \E error \in {TypeError, AbortError} : FetchRejects(error) /\ RetryFrame
    \/ SleepDone /\ RetryFrame

InitRetry ==
    /\ RetryInit
    /\ LimOff
    /\ LruOff
    /\ IngestOff
    /\ EvalOff
    /\ ValOff
    /\ WatchOff
    /\ SubOff
    /\ LookupOff
    /\ MemoOff
    /\ SlowOff
    /\ LoopOff
    /\ TaskOff
    /\ ResubOff

SpecRetry == InitRetry /\ [][RetryNext]_vars

\* The TTL arguments of set: none, zero, and one more than the default.
CustomTtls == {NoTtl, 0, DefaultTtl + 1}

LruNext ==
    \/ \E k \in Keys : Get(k) /\ LruFrame
    \/ \E k \in Keys, v \in Values, t \in CustomTtls : Set(k, v, t) /\ LruFrame
    \/ \E k \in Keys : Has(k) /\ LruFrame
    \/ \E k \in Keys : Delete(k) /\ LruFrame
    \/ Prune /\ LruFrame
    \/ AdvanceTime /\ LruFrame

InitLru ==
    /\ LruInit
    /\ LimOff
    /\ RetryOff
    /\ IngestOff
    /\ EvalOff
    /\ ValOff
    /\ WatchOff
    /\ SubOff
    /\ LookupOff
    /\ MemoOff
    /\ SlowOff
    /\ LoopOff
    /\ TaskOff
    /\ ResubOff

SpecLru == InitLru /\ [][LruNext]_vars

IngestNext ==
    \/ \E f \in {Null} \cup Blocks, b \in Blocks :
            MainLoadCursor(f, b) /\ IngestFrame
    \/ \E b \in Blocks, logs \in {<<>>} \cup DistinctSeqsUpTo(BackfillMaxLogs + 1) :
            Backfill(b, logs) /\ IngestFrame
    \/ \E logs \in SeqsUpTo(MaxLiveLogs) : OnLogs(logs) /\ IngestFrame
    \/ \E id \in Identities, threw \in BOOLEAN :
            HandlerSettles(id, threw) /\ IngestFrame
    \/ \E ok \in BOOLEAN : FlushSniperCursor(ok) /\ IngestFrame
    \/ PruneDedup /\ IngestFrame
    \/ ClockTick /\ IngestFrame

InitIngest ==
    /\ IngestInit
    /\ LimOff
    /\ RetryOff
    /\ LruOff
    /\ EvalOff
    /\ ValOff
    /\ WatchOff
    /\ SubOff
    /\ LookupOff
    /\ MemoOff
    /\ SlowOff
    /\ LoopOff
    /\ TaskOff
    /\ ResubOff

SpecIngest == InitIngest /\ [][IngestNext]_vars

\* The cursor and its file: the steps that move the cursor, and the flush
\* with its write as a step of its own.
CursorNext ==
    \/ \E f \in {Null} \cup Blocks, b \in Blocks :
            MainLoadCursor(f, b) /\ IngestFrame
    \/ \E b \in Blocks, logs \in {<<>>} \cup DistinctSeqsUpTo(BackfillMaxLogs + 1) :
            Backfill(b, logs) /\ IngestFrame
    \/ \E logs \in SeqsUpTo(MaxLiveLogs) : OnLogs(logs) /\ IngestFrame
    \/ FlushBegins /\ IngestFrame
    \/ \E i \in 1..MaxWrites, ok \in BOOLEAN :
            WriteSettles(i, ok) /\ IngestFrame

SpecCursor == InitIngest /\ [][CursorNext]_vars

EvalNext ==
    \/ Evaluate /\ EvalFrame

InitEvaluate ==
    /\ EvalInit
    /\ LimOff
    /\ RetryOff
    /\ LruOff
    /\ IngestOff
    /\ ValOff
    /\ WatchOff
    /\ SubOff
    /\ LookupOff
    /\ MemoOff
    /\ SlowOff
    /\ LoopOff
    /\ TaskOff
    /\ ResubOff

SpecEvaluate == InitEvaluate /\ [][EvalNext]_vars

ValFrame ==
    UNCHANGED <<limVars, retryVars, lruVars, ingestVars, evalVars,
                watchVars,
                subVars, lookupVars,
                memoVars,
                slowVars,
                loopVars,
                taskVars,
                resubVars>>

ValNext ==
    \/ \E token \in Tokens, found \in BOOLEAN :
            HandleEvent(token, found) /\ ValFrame
    \/ \E token \in Tokens, failures \in NotIndexedCalls :
         \E lk \in LookupsFor(token) :
            SlowValidation(token, lk, failures) /\ ValFrame
    \/ PruneCreators /\ ValFrame
    \/ DateNowAdvances /\ ValFrame

InitValidation ==
    /\ ValInit
    /\ LimOff
    /\ RetryOff
    /\ LruOff
    /\ IngestOff
    /\ EvalOff
    /\ WatchOff
    /\ SubOff
    /\ LookupOff
    /\ MemoOff
    /\ SlowOff
    /\ LoopOff
    /\ TaskOff
    /\ ResubOff

SpecValidation == InitValidation /\ [][ValNext]_vars

WatchFrame ==
    UNCHANGED <<limVars, retryVars, lruVars, ingestVars, evalVars, valVars,
                subVars, lookupVars,
                memoVars,
                slowVars,
                loopVars,
                taskVars,
                resubVars>>

WatchNext ==
    \/ \E token \in WatchTokens : Detect(token) /\ WatchFrame
    \/ PollStart /\ WatchFrame
    \/ \E k \in WatchKeys, res \in LiquidityResults :
            PollCheck(k, res) /\ WatchFrame
    \/ PollEnd /\ WatchFrame
    \/ WatchNowAdvances /\ WatchFrame

InitWatchlist ==
    /\ WatchInit
    /\ LimOff
    /\ RetryOff
    /\ LruOff
    /\ IngestOff
    /\ EvalOff
    /\ ValOff
    /\ SubOff
    /\ LookupOff
    /\ MemoOff
    /\ SlowOff
    /\ LoopOff
    /\ TaskOff
    /\ ResubOff

SpecWatchlist == InitWatchlist /\ [][WatchNext]_vars

SubFrame ==
    UNCHANGED <<limVars, retryVars, lruVars, ingestVars, evalVars, valVars,
                watchVars, lookupVars,
                memoVars,
                slowVars,
                loopVars,
                taskVars,
                resubVars>>

SubNext ==
    \/ \E w \in Watchers, b \in 1..MaxHead : OnBatch(w, b) /\ SubFrame
    \/ \E w \in Watchers : WatchError(w) /\ SubFrame
    \/ HandlerError /\ SubFrame
    \/ UnsubscribeAll /\ SubFrame
    \/ SubscribeAll /\ SubFrame
    \/ ResubscribeDone /\ SubFrame
    \/ SubNowAdvances /\ SubFrame

HealthNext ==
    \/ \E w \in Watchers, b \in 1..MaxHead : OnBatch(w, b) /\ SubFrame
    \/ UnsubscribeAll /\ SubFrame
    \/ SubscribeAll /\ SubFrame
    \/ ResubscribeDone /\ SubFrame
    \/ HealthCheck /\ SubFrame
    \/ \E withLog \in BOOLEAN : NewBlock(withLog) /\ SubFrame
    \/ SubNowAdvances /\ SubFrame

InitSubscription ==
    /\ SubInit
    /\ LimOff
    /\ RetryOff
    /\ LruOff
    /\ IngestOff
    /\ EvalOff
    /\ ValOff
    /\ WatchOff
    /\ LookupOff
    /\ MemoOff
    /\ SlowOff
    /\ LoopOff
    /\ TaskOff
    /\ ResubOff

SpecSubscription == InitSubscription /\ [][SubNext]_vars

SpecHealth == InitSubscription /\ [][HealthNext]_vars

LookupFrame ==
    UNCHANGED <<limVars, retryVars, lruVars, ingestVars, evalVars, valVars,
                watchVars, subVars,
                memoVars,
                slowVars,
                loopVars,
                taskVars,
                resubVars>>

LookupNext ==
    \/ \E t \in LookupTokens : ValidateTokenFastCalls(t) /\ LookupFrame
    \/ \E t \in LookupTokens : FastTimeout(t) /\ LookupFrame
    \/ \E a \in LookupAddresses, outcome \in LookupOutcomes :
            LookupSettles(a, outcome) /\ LookupFrame

InitLookup ==
    /\ LookupInit
    /\ LimOff
    /\ RetryOff
    /\ LruOff
    /\ IngestOff
    /\ EvalOff
    /\ ValOff
    /\ WatchOff
    /\ SubOff
    /\ MemoOff
    /\ SlowOff
    /\ LoopOff
    /\ TaskOff
    /\ ResubOff

SpecLookup == InitLookup /\ [][LookupNext]_vars

MemoFrame ==
    UNCHANGED <<limVars, retryVars, lruVars, ingestVars, evalVars, valVars,
                watchVars, subVars, lookupVars,
                slowVars,
                loopVars,
                taskVars,
                resubVars>>

MemoNext ==
    \/ \E raw \in RawKeys(memoKind) : MemoLookup(raw) /\ MemoFrame
    \/ \E k \in MemoKeys, outcome \in MemoOutcomes, result \in MemoResults :
            MemoSettles(k, outcome, result) /\ MemoFrame
    \/ MemoNowAdvances /\ MemoFrame

InitMemo ==
    /\ MemoInit
    /\ LimOff
    /\ RetryOff
    /\ LruOff
    /\ IngestOff
    /\ EvalOff
    /\ ValOff
    /\ WatchOff
    /\ SubOff
    /\ LookupOff
    /\ SlowOff
    /\ LoopOff
    /\ TaskOff
    /\ ResubOff

SpecMemo == InitMemo /\ [][MemoNext]_vars

SlowFrame ==
    UNCHANGED <<limVars, retryVars, lruVars, ingestVars, evalVars, valVars,
                watchVars, subVars, lookupVars, memoVars,
                loopVars,
                taskVars,
                resubVars>>

SlowNext ==
    \/ \E answers \in ZoraBaseAnswers, profile \in BOOLEAN,
          walletFound \in BOOLEAN :
            SlowAttempt(answers, profile, walletFound) /\ SlowFrame
    \/ SlowRestart /\ SlowFrame

InitSlow ==
    /\ SlowInit
    /\ LimOff
    /\ RetryOff
    /\ LruOff
    /\ IngestOff
    /\ EvalOff
    /\ ValOff
    /\ WatchOff
    /\ SubOff
    /\ LookupOff
    /\ MemoOff
    /\ LoopOff
    /\ TaskOff
    /\ ResubOff

SpecSlow == InitSlow /\ [][SlowNext]_vars

LoopFrame ==
    UNCHANGED <<limVars, retryVars, lruVars, ingestVars, evalVars, valVars,
                watchVars, subVars, lookupVars, memoVars,
                slowVars,
                taskVars,
                resubVars>>

LoopNext ==
    \/ LoopTick /\ LoopFrame
    \/ \E outcome \in PassOutcomes : PassSettles(outcome) /\ LoopFrame
    \/ \E n \in 0..MaxWatchlistSize : WatchlistSizeChanges(n) /\ LoopFrame

InitLoop ==
    /\ LoopInit
    /\ LimOff
    /\ RetryOff
    /\ LruOff
    /\ IngestOff
    /\ EvalOff
    /\ ValOff
    /\ WatchOff
    /\ SubOff
    /\ LookupOff
    /\ MemoOff
    /\ SlowOff
    /\ TaskOff
    /\ ResubOff

SpecLoop == InitLoop /\ [][LoopNext]_vars

TaskFrame ==
    /\ UNCHANGED <<limVars, retryVars, lruVars, ingestVars, evalVars,
                   watchVars, subVars, memoVars, slowVars, loopVars,
                   resubVars>>
    /\ UNCHANGED <<dateNow, creatorTokenCount, spamCountedTokens, validation,
                   validations, dispatchedFids, increments, windowEnd,
                   spamEvicted, windowPassed, windowCounted>>
    /\ UNCHANGED <<enableSlowFallback, neynarUserByAddressCache,
                   neynarUserByAddressInFlight, fastPath, scheduled, timedOut,
                   lastLookup>>

TaskNext ==
    \/ \E address \in SlowTaskAddresses :
            ScheduleSlowTask(address) /\ TaskFrame
    \/ \E k \in SlowTaskKeys, outcome \in SlowTaskOutcomes :
            SlowTaskEnds(k, outcome) /\ TaskFrame

\* The in-flight set starts empty (ValOff); SNIPER_ENABLE_SLOW_FALLBACK is
\* either setting.
InitTask ==
    /\ TaskInit
    /\ LimOff
    /\ RetryOff
    /\ LruOff
    /\ IngestOff
    /\ EvalOff
    /\ ValOff
    /\ WatchOff
    /\ SubOff
    /\ MemoOff
    /\ SlowOff
    /\ LoopOff
    /\ ResubOff
    /\ enableSlowFallback \in BOOLEAN
    /\ neynarUserByAddressCache = <<>>
    /\ neynarUserByAddressInFlight = {}
    /\ fastPath = <<>>
    /\ scheduled = {}
    /\ timedOut = {}
    /\ lastLookup = NoLookup

SpecTask == InitTask /\ [][TaskNext]_vars

ResubFrame ==
    UNCHANGED <<limVars, retryVars, lruVars, ingestVars, evalVars, valVars,
                watchVars, subVars, lookupVars, memoVars, slowVars, loopVars,
                taskVars>>

ResubNext ==
    \/ ResubscribeBegins /\ ResubFrame
    \/ \E thrower \in Throwers, stopped \in BOOLEAN :
            UnwatchAll(thrower, stopped) /\ ResubFrame
    \/ \E thrower \in Throwers : SubscribeAgain(thrower) /\ ResubFrame

InitResub ==
    /\ ResubInit
    /\ LimOff
    /\ RetryOff
    /\ LruOff
    /\ IngestOff
    /\ EvalOff
    /\ ValOff
    /\ WatchOff
    /\ SubOff
    /\ LookupOff
    /\ MemoOff
    /\ SlowOff
    /\ LoopOff
    /\ TaskOff

SpecResub == InitResub /\ [][ResubNext]_vars

-----------------------------------------------------------------------------
(* Claims about createConcurrencyLimiter (SpecLimiter).                    *)

\* Tasks that have started and not yet finished.
RunningTasks == {c \in Callers : pc[c] = "running"}

\* C2: the number of tasks that have started and not yet finished never
\* exceeds the configured concurrency.
C2_RunningWithinConcurrency == Cardinality(RunningTasks) <= concurrency

\* The callers that had to wait and have started, in start order.
StartedWaiters == SelectSeq(started, LAMBDA c : c \in Range(waited))

IsPrefix(s, t) == Len(s) <= Len(t) /\ \A i \in 1..Len(s) : s[i] = t[i]

\* a started before b (b may not have started yet).
StartedBefore(a, b) ==
    /\ a \in Range(started)
    /\ b \in Range(started) => IndexOf(started, a) < IndexOf(started, b)

\* Callers that had to wait are started in the order in which they arrived.
WaitersStartInArrivalOrder == IsPrefix(StartedWaiters, waited)

\* A caller never starts before the callers that were queued when it arrived.
NoOvertaking ==
    \A n \in Range(started) : \A w \in aheadAtArrival[n] : StartedBefore(w, n)

\* C3: callers that waited start in arrival order, and a caller that arrives
\* while callers are queued never starts before the callers already queued.
C3_FifoAndNoOvertaking == WaitersStartInArrivalOrder /\ NoOvertaking

-----------------------------------------------------------------------------
(* Claims about guardedFetch, fetchWithRetry and withRetry (SpecRetry).    *)

\* C4: every attempt of guardedFetch is bounded by timeoutMs: an attempt the
\* server does not answer is aborted when the timeout elapses, so no attempt
\* is still in flight (holding its slot) after more than timeoutMs.
C4_AttemptBoundedByTimeout ==
    (rPc = "inflight" /\ slotHeld) => elapsed <= opts.timeoutMs

RetryableHttpErrors == {HttpError(status) : status \in {429, 500, 503}}

\* C5: with fetchWithRetry's default predicate and with shouldRetryHttp, an
\* attempt that ends with a 5xx or 429 response is retried as long as fewer
\* than maxRetries retries were made: the call fails on such a response only
\* once maxRetries + 1 attempts were made.
C5_HttpErrorStatusIsRetried ==
    ( /\ rPc = "thrown"
      /\ opts.shouldRetry \in {"fetchDefault", "shouldRetryHttp"}
      /\ lastError \in RetryableHttpErrors )
    => retryError.attempts = opts.maxRetries + 1

\* C6: withRetry calls fn at most maxRetries + 1 times. The RetryError it
\* throws carries the number of attempts made and the error of the last
\* attempt; when every error was retryable that number is maxRetries + 1;
\* an error the predicate rejects is thrown at once, with no sleep after it.
C6_WithRetryAttempts ==
    /\ calls <= opts.maxRetries + 1
    /\ Len(delays) <= opts.maxRetries
    /\ ~allRetryable => rPc = "thrown"
    /\ rPc = "thrown" =>
        /\ retryError.attempts = calls
        /\ retryError.lastError = lastError
        /\ Len(delays) = calls - 1
        /\ allRetryable => retryError.attempts = opts.maxRetries + 1

\* Every retry was used up on retryable errors, the last one a timeout-like
\* network error after HTTP errors were retried.
C6_Witness ==
    /\ rPc = "thrown"
    /\ allRetryable
    /\ opts.maxRetries >= 2
    /\ calls = opts.maxRetries + 1
    /\ retryError.lastError = TypeError

\* C7: the delays slept between attempts strictly increase until they reach
\* maxDelayMs and are constant from then on, and no delay, the first
\* included, is larger than maxDelayMs.
C7_DelaysIncreaseUpToMax ==
    /\ \A i \in 1..Len(delays) : delays[i] <= opts.maxDelayMs
    /\ \A i \in 1..(Len(delays) - 1) :
        IF delays[i] < opts.maxDelayMs
        THEN delays[i + 1] > delays[i]
        ELSE delays[i + 1] = delays[i]

-----------------------------------------------------------------------------
(* Claims about LRUCache (SpecLru).                                        *)

\* The keys a set(k, ...) made now would remove, whatever it stores.
RemovedBySet(k) ==
    {MapKeys(cache) \ MapKeys(LruSet(cache, k, v, t, now, maxSize, ttlMs)) :
        v \in Values, t \in CustomTtls}

\* C8: the cache never holds more than maxSize entries, and in every state
\* reached by get/set/has/delete/prune, a set of a key that is not stored,
\* made while maxSize entries are stored, removes exactly one entry: the
\* least recently used one, recency being refreshed by get and set only.
C8_EvictsLeastRecentlyUsed ==
    /\ Len(cache) <= maxSize
    /\ \A k \in Keys \ MapKeys(cache) :
        Len(cache) = maxSize => RemovedBySet(k) = {{Head(recency)}}

\* Right after a set evicted a key from the full cache: the cache is full
\* again and the key set is its most recently used one.
C8_Witness ==
    /\ lastOp = "evict"
    /\ Len(cache) = maxSize
    /\ Len(recency) >= 2
    /\ cache[Len(cache)].key = recency[Len(recency)]

\* C9: an entry set at time s with TTL T (the override if given, else the
\* default) is reported by has and returned by get at every time up to
\* s + T and is absent after it; the get or has that finds it expired
\* removes it.
C9_PresentUntilExpiry ==
    \A k \in Keys :
        deadline[k] # Null =>
            LET h == LruHas(cache, k, now)
                g == LruGet(cache, k, now)
            IN  /\ h.found = (now <= deadline[k])
                /\ (g.value # Undefined) = (now <= deadline[k])
                /\ now > deadline[k] =>
                    (~MapHas(h.cache, k) /\ ~MapHas(g.cache, k))

\* A get or has has just removed an expired entry, while another entry is
\* at the last instant of its TTL.
C9_Witness ==
    /\ lastOp = "expired"
    /\ \E k \in Keys : deadline[k] = now

C10_CursorMonotoneDirtyOnAdvance ==
    [][sniperLastSeenBlock # Null =>
        /\ sniperLastSeenBlock' # Null
        /\ sniperLastSeenBlock' >= sniperLastSeenBlock
        /\ sniperLastSeenBlock' > sniperLastSeenBlock => sniperCursorDirty'
        /\ (/\ sniperLastSeenBlock' = sniperLastSeenBlock
            /\ (phase' # phase \/ liveLogs' # liveLogs))
              => sniperCursorDirty' = sniperCursorDirty]_vars

\* A log of a block below the cursor was accepted and the flushed cursor
\* stayed clean at the highest block.
C10_Witness ==
    /\ lowerSeen
    /\ sniperLastSeenBlock = MaxBlock
    /\ ~sniperCursorDirty

\* C11: evaluateCreator passes only if the Twitter followers are known and
\* at least MIN_TWITTER_FOLLOWERS or the Farcaster followers are known and
\* at least MIN_FARCASTER_FOLLOWERS; and it fails whenever the Twitter
\* followers are known and below MIN_TWITTER_MINIMUM, whatever Farcaster
\* shows.
C11_FollowerBarAndTwitterFloor ==
    evaluation # NotEvaluated =>
        /\ evaluation.passes =>
              \/ (creator.twitterFollowers # Null
                  /\ creator.twitterFollowers >= MIN_TWITTER_FOLLOWERS)
              \/ (creator.farcasterFollowers # Null
                  /\ creator.farcasterFollowers >= MIN_FARCASTER_FOLLOWERS)
        /\ (creator.twitterFollowers # Null
            /\ creator.twitterFollowers < MIN_TWITTER_MINIMUM)
              => ~evaluation.passes

\* A creator below the Twitter floor whose Farcaster followers meet their
\* bar was evaluated (and rejected).
C11_Witness ==
    /\ evaluation # NotEvaluated
    /\ creator.twitterFollowers = MIN_TWITTER_MINIMUM - 1
    /\ creator.farcasterFollowers = MIN_FARCASTER_FOLLOWERS
    /\ ~evaluation.passes

\* C12: a CreatorInfo that passes with the score gate enabled passes with
\* it disabled; and the two settings differ only when the score is missing
\* or below the floor and the Twitter followers are below the big-account
\* bar.
C12_GateOnlyRejects ==
    evaluation # NotEvaluated =>
        LET other == EvaluateCreator(creator, ~gateEnabled)
            on == IF gateEnabled THEN evaluation ELSE other
            off == IF gateEnabled THEN other ELSE evaluation
        IN  /\ on.passes => off.passes
            /\ on.passes # off.passes =>
                  /\ (creator.neynarScore = Null
                      \/ creator.neynarScore < MIN_NEYNAR)
                  /\ (creator.twitterFollowers = Null
                      \/ creator.twitterFollowers < MIN_TWITTER_FOLLOWERS)

\* A creator with a low score and enough Farcaster followers was rejected
\* by the enabled gate, and passes with the gate disabled.
C12_Witness ==
    /\ evaluation # NotEvaluated
    /\ gateEnabled
    /\ ~evaluation.passes
    /\ EvaluateCreator(creator, FALSE).passes

-----------------------------------------------------------------------------
(* Claims about validation and spam protection (SpecValidation).           *)

\* C13: a creator whose resolved Farcaster ID is in PLATFORM_FIDS never
\* obtains a passing ValidationResult and never reaches the alert and
\* watchlist branch, on whichever path and platform it was resolved.
C13_DenyListedNeverPasses ==
    /\ validation.result.passes =>
          ~IsPlatformFid(validation.result.creatorInfo.fid)
    /\ dispatchedFids \cap PLATFORM_FIDS = {}

\* The spam check ran on a token that had been counted in a window still
\* open: it found the token's mark, so it passed without counting.
RevalidationPasses == validation.how = "already_counted"

\* C14 as stated: validating the same token address any number of times
\* within the rolling window counts it at most once, and a re-validation
\* of a counted token passes the spam check.
C14_CountedAtMostOnce ==
    /\ \A tk \in TokenKeys : increments[tk] <= 1
    /\ (validation.checked /\ validation.inWindow) => RevalidationPasses

\* C14: as long as the token's mark has not been evicted from the bounded
\* cache of counted tokens, validating the same token address any number
\* of times within the rolling window counts it at most once, and a
\* re-validation of a counted token passes the spam check even when the
\* creator's counter is at the limit.
C14_CountedAtMostOnceUnlessEvicted ==
    /\ \A tk \in TokenKeys : ~spamEvicted[tk] => increments[tk] <= 1
    /\ (validation.checked /\ validation.inWindow /\ ~validation.evicted)
          => RevalidationPasses

\* The slow path re-validated a token the fast path had counted, with the
\* creator's counter at the limit: it passed and was not counted again.
C14_Witness ==
    /\ validation.path = "slow"
    /\ validation.checked
    /\ validation.inWindow
    /\ ~validation.evicted
    /\ validation.result.passes
    /\ increments[validation.key] = 1
    /\ CreatorKey(validation.result.creatorInfo) \in CreatorKeys
    /\ AtLimit(creatorTokenCount[CreatorKey(validation.result.creatorInfo)])

\* The stored counter of every creator is within the limit.
CounterWithinLimit ==
    \A k \in CreatorKeys :
        creatorTokenCount[k].count <= MAX_TOKENS_PER_CREATOR

\* The last validation failed the spam check with a spam reason, after the
\* reputation check had passed.
RejectedAsSpam ==
    /\ ~validation.result.passes
    /\ validation.result.reasons = <<"spam">>
    /\ EvaluateCreator(validation.result.creatorInfo, gateEnabled).passes

\* C15 as stated: within one rolling window of a creator key at most
\* MAX_TOKENS_PER_CREATOR distinct token addresses pass the spam check,
\* every further distinct token fails with a spam reason, and the counter
\* never exceeds the limit.
C15_AtMostLimitPassPerWindow ==
    /\ \A k \in CreatorKeys :
          Cardinality(windowPassed[k]) <= MAX_TOKENS_PER_CREATOR
    /\ (validation.checked /\ validation.further) => RejectedAsSpam
    /\ CounterWithinLimit

\* C15: within one rolling window of a creator key at most
\* MAX_TOKENS_PER_CREATOR distinct token addresses are counted; once the
\* counter is at the limit every token of that creator validated inside
\* the window that is not marked as already counted fails with a spam
\* reason although its reputation check passed; the counter never exceeds
\* the limit.
C15_AtMostLimitCountedPerWindow ==
    /\ \A k \in CreatorKeys :
          Cardinality(windowCounted[k]) <= MAX_TOKENS_PER_CREATOR
    /\ (validation.checked /\ validation.atLimit) => RejectedAsSpam
    /\ CounterWithinLimit

\* A third token of a creator whose window holds two counted tokens was
\* rejected as spam.
C15_Witness ==
    /\ validation.checked
    /\ validation.atLimit
    /\ RejectedAsSpam
    /\ Cardinality(windowCounted[CreatorKey(validation.result.creatorInfo)])
          = MAX_TOKENS_PER_CREATOR
    /\ validation.key
          \notin windowCounted[CreatorKey(validation.result.creatorInfo)]

-----------------------------------------------------------------------------
(* Claims about the watchlist and the alerts (SpecWatchlist).              *)

\* No two entries of the watchlist are for the same token address,
\* compared case-insensitively.
OneEntryPerAddress ==
    \A i, j \in 1..Len(pendingTokens) :
        ToLowerCase(pendingTokens[i].token.address)
            = ToLowerCase(pendingTokens[j].token.address) => i = j

\* C16: the watchlist holds at most one entry per token address compared
\* case-insensitively, and an addToWatchlist call for an address that is
\* already watched leaves the watchlist, the existing entry included, as it
\* was.
C16_AddWatchedIsNoOp ==
    [][/\ OneEntryPerAddress'
       /\ (detections' # detections /\ lastAdd'.watched)
             => pendingTokens' = pendingTokens]_vars

\* addToWatchlist was called for a token watched since an earlier time and
\* already checked by a poll; its entry is still the only one.
C16_Witness ==
    /\ lastAdd.watched
    /\ \E e \in Range(pendingTokens) :
          /\ e.key = lastAdd.key
          /\ e.addedAt < watchNow
          /\ e.checkCount > 0
    /\ Len(pendingTokens) = 1

\* C17: once the entry of a token has been removed by a poll pass, at the
\* threshold or expired, a later addToWatchlist call for the same address
\* creates no new entry.
C17_RemovedNeverReadded == readded = {}

\* C18: under the default settings, for an entry whose liquidity a poll
\* found at or above the threshold, sendLiquidityAlert was invoked exactly
\* once, and the entry is gone when that pass has ended.
C18_DispatchedOnceAtThreshold ==
    config = DefaultConfig =>
        \A k \in WatchKeys :
            hit[k] # Null =>
                /\ liquidityAlerts[k] = 1
                /\ ~pass.active => ~MapHas(pendingTokens, k)

\* C19: an entry older than the maximum age at the start of a poll pass is
\* not liquidity-checked in that pass, is removed by that pass, and
\* sendLiquidityAlert is not invoked for it in or after that pass.
C19_ExpiredRemovedUndispatched ==
    /\ afterExpiry = {}
    /\ \A k \in expired :
          pass.active /\ k \in pass.toRemove /\ k \notin pass.toCheck

\* With liquidity alerts on, an entry that never reached the threshold was
\* removed as too old, without an alert, by a pass that left another entry
\* on the watchlist.
C19_Witness ==
    /\ config.alertOnLiquidity
    /\ ~pass.active
    /\ \E k \in removed :
          /\ ~MapHas(pendingTokens, k)
          /\ liquidityAlerts[k] = 0
          /\ hit[k] = Null
    /\ Len(pendingTokens) > 0

\* The token keys of creators below the big-account bar.
SmallCreatorKeys ==
    {ToLowerCase(t.address) :
        t \in {x \in WatchTokens : ~TwitterBigAccount(x.launchedBy)}}

\* C20: under the default settings a token that passed validation with a
\* creator below the big-account bar is put on the watchlist and gets no
\* alert at detection: its first alert is the liquidity alert.
C20_WatchedNotAlertedAtDetection ==
    config = DefaultConfig =>
        /\ \A k \in SmallCreatorKeys : firstAlert[k] # "create"
        /\ lastAdd # NoAdd =>
              (MapHas(pendingTokens, lastAdd.key) \/ lastAdd.key \in removed)

\* C21: a token that passed validation with a creator at or above the
\* big-account bar has been alerted on create, an alert without a liquidity
\* value, when its handler returns, is not on the watchlist and gets no
\* liquidity alert.
C21_BigAccountAlertedNotWatched ==
    (detected # NotDetected /\ detected.big) =>
        /\ detected.alerted
        /\ firstAlert[detected.key] = "create"
        /\ ~MapHas(pendingTokens, detected.key)
        /\ liquidityAlerts[detected.key] = 0

\* C22: slow validation is scheduled only when the fast path found no
\* creator; a fast validation that found the creator and rejected the
\* token, on policy or on the spam limit, schedules none.
C22_SlowOnlyWhenCreatorNotFound ==
    [][(/\ validations' # validations
        /\ validation'.path = "fast"
        /\ validation'.result.resolved)
           => slowValidationInFlight' = slowValidationInFlight]_vars

\* A slow validation ended without having found the creator.
SlowGaveUp ==
    /\ validation.path = "slow"
    /\ ~validation.result.resolved

\* C23 as stated: for one token slow validation calls validateToken at
\* most 3 times.
C23_AtMostThreeAttempts == validation.calls <= 3

\* C23: for one token slow validation calls validateToken at most 4 times,
\* the first attempt and 3 retries; if none of the calls finds the creator
\* it stops after the fourth with a failing result.
C23_AtMostFourAttempts ==
    /\ validation.calls <= SlowMaxRetries + 1
    /\ SlowGaveUp =>
          /\ validation.calls = SlowMaxRetries + 1
          /\ ~validation.result.passes
          /\ validation.result.reasons = <<"creator_not_found_after_retries">>
          /\ validation.key \notin slowValidationInFlight

\* A slow validation found the creator at its fourth call, after three
\* retries, and the token passed.
C23_Witness ==
    /\ validation.path = "slow"
    /\ validation.calls = SlowMaxRetries + 1
    /\ validation.result.resolved
    /\ validation.result.passes


\* C24: when the handler task of a log throws, its DedupKey is removed from
\* the dedup cache and nothing else changes: the other logs keep their marks
\* and their dispatched handlers; when it returns normally the cache is left
\* as it is; and a delivery of a log whose DedupKey is not in the cache, as
\* after a throw, is dispatched.
C24_ThrowUnmarksForRetry ==
    [][\A id \in Identities :
        /\ handlers'[id] < handlers[id] =>
              /\ settled'.id = id
              /\ settled'.threw =>
                    /\ ~MapHas(processedEventIds', id)
                    /\ \A o \in Identities \ {id} :
                          /\ MapHas(processedEventIds', o)
                                <=> MapHas(processedEventIds, o)
                          /\ handlers'[o] = handlers[o]
                    /\ dispatches' = dispatches
              /\ ~settled'.threw => processedEventIds' = processedEventIds
        /\ (deliveries'[id] > deliveries[id]
            /\ ~MapHas(processedEventIds, id))
              => /\ dispatches'[id] > dispatches[id]
                 /\ MapHas(processedEventIds', id)]_vars

\* Two logs of one backfill batch were dispatched; the handler of one threw
\* and the log, delivered again, was dispatched a second time and is marked,
\* while the other log kept its mark and its single dispatch.
C24_Witness ==
    /\ settled.threw
    /\ \E o \in backfilled \ {settled.id} :
          /\ settled.id \in backfilled
          /\ MapHas(processedEventIds, settled.id)
          /\ dispatches[settled.id] = 2
          /\ deliveries[settled.id] = 2
          /\ MapHas(processedEventIds, o)
          /\ dispatches[o] = 1


\* A cursor write settles in this step; a tick begins a write in this step.
WriteSettled == Len(writes') < Len(writes)

WriteBegins == Len(writes') > Len(writes)

MarkInForce(id) ==
    /\ ~lost[id]
    /\ markDeadline[id] # Null => clock <= markDeadline[id]

\* No live batch is delivered before the backfill loop has run, and when it
\* has run every log it dispatched is marked.
BackfillBeforeLive ==
    /\ phase \in {"boot", "backfill"} =>
          /\ liveLogs = 0
          /\ \A id \in Identities : dispatches[id] = 0
    /\ (phase = "live" /\ liveLogs = 0 /\ settled = NotSettled /\ clock = 0)
          => \A id \in Identities :
                dispatches[id] > 0 => MapHas(processedEventIds, id)

\* C29 as claimed: the backfill loop is complete before a live batch is
\* delivered, and a log the backfill query returned is handled once, however
\* often a live subscription delivers it afterwards.
C29_BackfilledHandledOnce ==
    /\ BackfillBeforeLive
    /\ \A id \in backfilled :
          /\ dispatches[id] <= 1
          /\ deliveries[id] > 0 => dispatches[id] = 1

\* C29, amended: the backfill loop is complete before a live batch is
\* delivered, and a log the backfill query returned is handled once, however
\* often a live subscription delivers it afterwards, as long as its mark is
\* within the dedup TTL, its key was not evicted and its handler did not
\* throw; it is handled at least once when the loop or a subscription got it.
C29_BackfilledHandledOnceWhileMarked ==
    /\ BackfillBeforeLive
    /\ \A id \in backfilled :
          /\ MarkInForce(id) => dispatches[id] <= 1
          /\ deliveries[id] > 0 => dispatches[id] >= 1

\* The only log delivered so far was dispatched by the backfill and then
\* delivered by a live subscription, which skipped it.
C29_Witness ==
    \E id \in backfilled :
        /\ phase = "live"
        /\ liveLogs = 1
        /\ deliveries[id] = 2
        /\ dispatches[id] = 1
        /\ MarkInForce(id)
        /\ \A o \in Identities \ {id} : deliveries[o] = 0


\* C26: an execution of the resubscribe procedure starts only while none is
\* in progress and at least the cooldown after the start of the one before,
\* and the subscriptions change only inside an execution; a request made
\* while one is in progress or during the cooldown changes no subscription,
\* no flag and not lastResubscribeAt.
C26_ResubscribeSerialAfterCooldown ==
    [][/\ (isResubscribing' /\ ~isResubscribing) =>
            /\ lastResubscribeAt' = subNow
            /\ lastResubscribeAt' - lastResubscribeAt >= ResubscribeCooldown
       /\ lastResubscribeAt' # lastResubscribeAt =>
            ~isResubscribing /\ isResubscribing'
       /\ unwatch' # unwatch => isResubscribing /\ isResubscribing'
       /\ (request' # request
           /\ request'.outcome \in {"in_progress", "cooldown"}) =>
            /\ unwatch' = unwatch
            /\ lastResubscribeAt' = lastResubscribeAt
            /\ isResubscribing' = isResubscribing
            /\ resubscribing' = resubscribing
            /\ request'.outcome = "in_progress" <=> isResubscribing
            /\ request'.outcome = "cooldown" =>
                  subNow - lastResubscribeAt < ResubscribeCooldown]_vars

\* An execution ran and ended, and a request made after it, still within
\* the cooldown, was suppressed.
C26_Witness ==
    /\ request.outcome = "cooldown"
    /\ ~isResubscribing
    /\ resubscribing = "idle"
    /\ lastResubscribeAt > 0
    /\ subNow - lastResubscribeAt < ResubscribeCooldown

\* C27: the counter never exceeds the number of transport errors of the
\* Clanker and Zora watchers since the last delivered batch, so a batch
\* resets it and errors of handlers and of the VIP watcher are not counted;
\* a resubscribe is requested for transport errors only with at least
\* MAX_CONSECUTIVE_ERRORS such errors since the last batch.
C27_ResubscribeAfterFiveTransportErrors ==
    /\ consecutiveErrors <= sinceBatch.transport
    /\ request.reason = "watch error" =>
          request.counted >= MAX_CONSECUTIVE_ERRORS

\* The fifth transport error since the last batch started a resubscribe;
\* the VIP watcher and a handler had failed too and were not counted.
C27_Witness ==
    /\ request.reason = "watch error"
    /\ request.outcome = "started"
    /\ request.counted = MAX_CONSECUTIVE_ERRORS
    /\ consecutiveErrors = MAX_CONSECUTIVE_ERRORS
    /\ sinceBatch.transport = MAX_CONSECUTIVE_ERRORS
    /\ sinceBatch.vip = 1
    /\ sinceBatch.handler = 1

\* C28: the health check requests a resubscribe only when the chain head
\* advanced since the check before, the last batch is older than the
\* staleness threshold and the probe found a log that no subscription
\* delivered; when the head did not advance it neither probes nor requests.
C28_ResubscribeOnlyForMissedLogs ==
    /\ health.requested =>
          /\ health.advanced
          /\ health.stale
          /\ health.missed > 0
    /\ ~health.advanced => ~health.probed /\ ~health.requested

\* C30 as claimed: when the timer of the fast path fires first, the fast
\* path fails with creator_not_found_fast, slow validation is scheduled and
\* the lookup stays in flight; a lookup that settles is removed from the
\* in-flight map, and when it found a user the user is in the address cache.
C30_TimeoutSchedulesSlow ==
    [][/\ \A t \in timedOut' \ timedOut :
            /\ fastPath'[t] = "creator_not_found_fast"
            /\ t \in scheduled'
            /\ ToLowerCase(LookupCreator[t]) \in neynarUserByAddressInFlight'
            /\ neynarUserByAddressInFlight' = neynarUserByAddressInFlight
       /\ \A a \in neynarUserByAddressInFlight
                      \ neynarUserByAddressInFlight' :
            /\ lastLookup'.address = a
            /\ lastLookup'.outcome = "user" =>
                  neynarUserByAddressCache'[a] = "user"
       /\ lastLookup' # lastLookup =>
            lastLookup'.address \notin neynarUserByAddressInFlight']_vars

\* C30, amended: when the timer of the fast path fires first, the fast path
\* fails with creator_not_found_fast, slow validation is scheduled if
\* SNIPER_ENABLE_SLOW_FALLBACK is on and not otherwise, and the lookup stays
\* in flight; a lookup that settles is removed from the in-flight map, and
\* when it found a user the user is in the address cache.
C30_TimeoutSchedulesSlowIfEnabled ==
    [][/\ \A t \in timedOut' \ timedOut :
            /\ fastPath'[t] = "creator_not_found_fast"
            /\ t \in scheduled' <=> enableSlowFallback
            /\ ToLowerCase(LookupCreator[t]) \in neynarUserByAddressInFlight'
            /\ neynarUserByAddressInFlight' = neynarUserByAddressInFlight
       /\ \A a \in neynarUserByAddressInFlight
                      \ neynarUserByAddressInFlight' :
            /\ lastLookup'.address = a
            /\ lastLookup'.outcome = "user" =>
                  neynarUserByAddressCache'[a] = "user"
       /\ lastLookup' # lastLookup =>
            lastLookup'.address \notin neynarUserByAddressInFlight']_vars

\* The fast path of the only token validated timed out and its slow
\* validation was scheduled; the lookup then found the user, who is in the
\* address cache, and no lookup is in flight.
C30_Witness ==
    \E t \in timedOut :
        /\ t \in scheduled
        /\ fastPath[t] = "creator_not_found_fast"
        /\ \A o \in LookupTokens \ {t} : fastPath[o] = "idle"
        /\ lastLookup = [address |-> ToLowerCase(LookupCreator[t]),
                         outcome |-> "user"]
        /\ neynarUserByAddressCache[ToLowerCase(LookupCreator[t])] = "user"
        /\ neynarUserByAddressInFlight = {}


-----------------------------------------------------------------------------
(* Claims about the memoized creator lookups (SpecMemo).                   *)

\* C31: for each key of a lookup by address, user name or Twitter handle
\* at most one request is outstanding, and exactly while the key is in the
\* in-flight map; a caller that arrives while the key is in flight issues
\* no request and waits for that task; when the request is answered,
\* however it ended, every waiting caller is served and the in-flight
\* entry is gone.
C31_OneRequestPerKey ==
    [][(memoKind \in Memoized) =>
          \A k \in MemoKeys :
              /\ outstanding'[k] <= 1
              /\ k \in memoInFlight' <=> outstanding'[k] = 1
              /\ (k \in memoInFlight /\ awaiting'[k] > awaiting[k]) =>
                     outstanding'[k] = outstanding[k]
              /\ outstanding'[k] < outstanding[k] =>
                     /\ k \notin memoInFlight'
                     /\ lastSettle'.key = k
                     /\ lastSettle'.served = awaiting[k]
      ]_vars

\* Two callers shared one request for a user name, the request failed and
\* the in-flight entry is gone.
C31_Witness ==
    /\ memoKind = "username"
    /\ lastSettle.key = "bob"
    /\ lastSettle.served = MaxSharers
    /\ lastSettle.outcome = "network_error"
    /\ "bob" \notin memoInFlight
    /\ outstanding["bob"] = 0

\* C32: a lookup called for a key that was resolved successfully no longer
\* than the success TTL ago issues no request and returns the result of
\* that resolution; so also the lookup by FID.
C32_SecondLookupFromCache ==
    lastCall.fresh =>
        /\ ~lastCall.requested
        /\ lastCall.value = lastCall.previous

\* The entry of k in a Map, or no entry.
EntryOf(c, k) == IF MapHas(c, k) THEN MapGet(c, k) ELSE NoSuccess

\* C33: an entry of the result cache is written only when a request is
\* answered with a user (the user, expiring after the TTL of the cache) or
\* with HTTP 404 (null, expiring after the not-found TTL); a request that
\* ends in any other way leaves the cache as it is, with no live entry of
\* the key, so that the next lookup of the key is a request.
C33_CacheWrittenOnSuccessAnd404 ==
    [][(memoKind \in Memoized) =>
          \A k \in MemoKeys :
              /\ (MapHas(memoCache', k)
                    /\ EntryOf(memoCache', k) # EntryOf(memoCache, k)) =>
                     /\ outstanding'[k] < outstanding[k]
                     /\ \/ /\ lastSettle'.outcome = "user"
                           /\ EntryOf(memoCache', k).value = lastSettle'.value
                           /\ EntryOf(memoCache', k).expiresAt =
                                  memoNow + MemoTtl
                        \/ /\ lastSettle'.outcome = "404"
                           /\ EntryOf(memoCache', k).value = "null"
                           /\ EntryOf(memoCache', k).expiresAt =
                                  memoNow + NotFoundTtl
              /\ (outstanding'[k] < outstanding[k]
                    /\ lastSettle'.outcome \in MemoFailures) =>
                     /\ memoCache' = memoCache
                     /\ LruGet(memoCache', k, memoNow').value = Undefined
              /\ (lastCall' # lastCall /\ lastCall'.key = k
                    /\ lastSettle.key = k
                    /\ lastSettle.outcome \in MemoFailures
                    /\ k \notin memoInFlight) =>
                     lastCall'.requested
      ]_vars

\* A lookup by Twitter handle whose body did not parse is followed by a
\* lookup of the same handle, which is a request again.
C33_Witness ==
    /\ memoKind = "twitter"
    /\ lastSettle.key = "bob"
    /\ lastSettle.outcome = "malformed"
    /\ lastCall.key = "bob"
    /\ lastCall.requested
    /\ outstanding["bob"] = 1
    /\ ~MapHas(memoCache, "bob")


-----------------------------------------------------------------------------
(* Claims about the waits of the slow path (SpecSlow).                     *)

\* Every base of the platform API gave the answer.
AllAnswered(answers, status) ==
    /\ answers # <<>>
    /\ \A i \in 1..Len(answers) : answers[i] = status

\* 1 s, 2 s, 4 s, ...: the wait after the attempt with the given index.
RECURSIVE PlainWait(_)
PlainWait(tries) == IF tries = 0 THEN 1000 ELSE 2 * PlainWait(tries - 1)

\* C34: an attempt of the slow path for a Zora token that fails with the
\* platform API answering HTTP 503 and the wallet fallback finding no
\* creator has the reason api_error_503 and is followed by twice the plain
\* wait of its turn, at most 30 s; an attempt that fails with a plain
\* not-found (HTTP 404) is followed by the plain wait: 1 s, 2 s, 4 s.
C34_Waits503Doubled ==
    /\ (AllAnswered(slowLast.answers, 503) /\ ~slowLast.walletFound) =>
          /\ slowLast.reason = "api_error_503"
          /\ slowLast.waited # Null =>
                 slowLast.waited = Min(2 * PlainWait(slowLast.tries), 30000)
    /\ (AllAnswered(slowLast.answers, 404) /\ ~slowLast.walletFound) =>
          /\ slowLast.reason = "creator_not_found"
          /\ slowLast.waited # Null =>
                 slowLast.waited = PlainWait(slowLast.tries)


-----------------------------------------------------------------------------
(* Claims about the progress of createConcurrencyLimiter (SpecLimiterLive). *)

\* C35: when every started task finishes, every caller in the queue is
\* started in the end; a task that finishes gives its slot back and wakes
\* the first caller of the queue and nobody else; and with no task running
\* and no caller queued the active count is 0.
C35_QueuedEventuallyStarted ==
    /\ \A c \in LiveCallers :
           (pc[c] = "waiting") ~> (pc[c] \in {"running", "done"})
    /\ [][\A c \in Callers :
              (pc[c] = "running" /\ pc'[c] = "done") =>
                  /\ activeCount' = activeCount - 1
                  /\ IF queue = <<>> THEN microtasks' = microtasks
                     ELSE /\ queue' = Tail(queue)
                          /\ microtasks' = Append(microtasks, Head(queue))
       ]_vars
    /\ []((RunningTasks = {} /\ queue = <<>>) => activeCount = 0)

\* Every caller has finished, and as many had to wait as the limiter
\* leaves no slot for.
C35_Witness ==
    /\ \A c \in LiveCallers : pc[c] = "done"
    /\ concurrency = 1
    /\ Len(waited) = Cardinality(LiveCallers) - concurrency
    /\ activeCount = 0


-----------------------------------------------------------------------------
(* Claims about the cursor file (SpecCursor).                              *)

\* C36: the block number in the cursor file never becomes smaller,
\* whatever the order in which flush ticks, advances of the cursor and the
\* ends of the file writes follow each other.
C36_CursorFileNeverBackwards == [][cursorFile' >= cursorFile]_vars

-----------------------------------------------------------------------------
(* Claims about the interval of the watchlist poll (SpecLoop).             *)

\* C37: at most one pass of checkWatchlistLiquidity runs at any time and the
\* flag is set exactly while one runs; a tick during a pass starts none; the
\* flag is clear after a pass settled, completed or failed, and a tick on a
\* clear flag and a watchlist that is not empty starts the next pass.
C37_OnePassAtATime ==
    /\ [](/\ passesRunning <= 1
          /\ watchlistCheckInFlight <=> passesRunning = 1)
    /\ [][(passesRunning' > passesRunning =>
                /\ passesRunning = 0
                /\ ~watchlistCheckInFlight
                /\ watchlistSize > 0)
           /\ (Len(passLog') > Len(passLog) =>
                /\ ~watchlistCheckInFlight'
                /\ passesRunning' = 0)
           /\ ((lastTick' = "started" /\ lastTick # "started") =>
                passesRunning' = passesRunning + 1)
       ]_vars

\* A pass failed, a later tick started the next pass, and a tick during
\* that pass found the flag set.
C37_Witness ==
    /\ \E i \in 1..Len(passLog) : passLog[i] = "failed"
    /\ passesRunning = 1
    /\ watchlistCheckInFlight
    /\ lastTick = "busy"

-----------------------------------------------------------------------------
(* Claims about sendCreateAlert (SpecWatchlist).                           *)

\* The live entries of createAlertedTokens for a token address, whatever
\* the spelling of the key.
AlertedEntries(alerted, tokenKey, t) ==
    {i \in 1..Len(alerted) :
        /\ ToLowerCase(alerted[i].key) = tokenKey
        /\ ~IsExpired(alerted[i], t)}

\* C38: a create alert is sent for a token only when createAlertedTokens
\* holds no live entry for its address in any spelling, and the sending
\* call leaves exactly one; so while the token is in the cache the calls
\* of sendCreateAlert for it send one alert.
C38_OneCreateAlertWhileCached ==
    [][(detections' > detections /\ detected'.sent) =>
          /\ AlertedEntries(createAlertedTokens, detected'.key, watchNow) = {}
          /\ Cardinality(AlertedEntries(createAlertedTokens', detected'.key,
                                        watchNow)) = 1
    ]_vars

\* A second detection of a token whose create alert was sent: nothing is
\* sent and the token is still in the cache.
C38_Witness ==
    /\ config.alertOnCreate
    /\ detections = 2
    /\ ~detected.sent
    /\ firstAlert[detected.key] = "create"
    /\ AlertedEntries(createAlertedTokens, detected.key, watchNow) # {}

-----------------------------------------------------------------------------
(* Claims about scheduleSlowValidation (SpecTask).                         *)

\* C39: a token key has at most one slow-validation task, queued or
\* running, and is in the in-flight set exactly while it has one; a call of
\* scheduleSlowValidation is turned down only for a key in flight (or with
\* the fallback off), and a task that ends, whatever its outcome, leaves
\* its key out of the set.
C39_OneSlowTaskPerToken ==
    /\ [](\A k \in SlowTaskKeys :
            /\ TasksOf(k) <= 1
            /\ k \in slowValidationInFlight <=> TasksOf(k) = 1)
    /\ [][\A k \in SlowTaskKeys :
           /\ (lastSchedule' # lastSchedule /\ lastSchedule'.key = k) =>
                IF lastSchedule'.accepted
                THEN /\ enableSlowFallback
                     /\ k \notin slowValidationInFlight
                     /\ TasksOf(k)' = 1
                ELSE /\ ~enableSlowFallback \/ k \in slowValidationInFlight
                     /\ TasksOf(k)' = TasksOf(k)
           /\ (lastEnd' # lastEnd /\ lastEnd'.key = k) =>
                /\ k \notin slowValidationInFlight'
                /\ TasksOf(k)' = 0
       ]_vars

\* A task of a token threw, and a later call for the token, in another
\* spelling or not, was accepted; a further call for it was turned down.
C39_Witness ==
    /\ lastEnd = [key |-> "0xt1", outcome |-> "threw"]
    /\ lastSchedule = [key |-> "0xt1", accepted |-> FALSE]
    /\ "0xt1" \in slowValidationInFlight
    /\ TasksOf("0xt1") = 1

-----------------------------------------------------------------------------
(* Claims about the watchers of the log streams (SpecResub).               *)

\* C40: between the executions of resubscribeAll each of the three streams
\* has exactly the watcher its stored unwatch handle refers to: none
\* created earlier is still active, and the handle is not that of a
\* stopped watcher.
C40_OneWatcherPerStream ==
    resubStep = "idle" =>
        \A w \in Watchers : activeWatchers[w] = {unwatchHandle[w]}

====
